---- MODULE Spec2Model ----
(***************************************************************************)
(* Model of the macro factor monitor: the validated fetcher (fetcher.py),  *)
(* the agents' voting, scoring and analyze() (agents.py, config.py), the   *)
(* signal synthesizer and the swarm's run() (swarm.py).                    *)
(*                                                                         *)
(* Units: every indicator value is an integer number of hundredths (the    *)
(* source's floats have at most two decimals in the tables modelled here). *)
(* Time is in seconds.  An Optional[float] is <<>> (None) or <<v>>.        *)
(***************************************************************************)
EXTENDS Integers, Sequences, FiniteSets, TLC

\* ------------------------------------------------------------------ bounds
NumThreads == 2     \* threads calling MacroDataFetcher.fetch concurrently
MaxCalls == 2       \* fetch calls started in one behaviour
MaxTime == 1800     \* the clock stops advancing here
TimeStep == 900     \* granularity of the clock
MaxFactors == 4     \* longest factor list given to _vote
MaxStored == 1      \* earlier cycles whose rows the database holds at the start
BackfillRuns == 2   \* calls of run_backfill in one behaviour
MaxClientCalls == 3 \* calls of FREDClient.fetch and fetch_quote in one behaviour
ContentChunks == 3  \* pieces in which a file's content reaches the disk
MaxWrites == 3      \* calls of atomic_write on one path in one behaviour
MaxTriggers == 3    \* requests to trigger_swarm_run in one behaviour

None == <<>>
Some(v) == <<v>>

\* ------------------------------------------------------- config.py tables
FredKeys == {"WALCL", "TGA", "RRP", "SOFR", "DGS10", "DGS2", "T10Y2Y",
             "HY_OAS", "IG_OAS", "VIX"}
NonFredKeys == {"SP500_PE", "SP500_FWD_PE", "SHILLER_CAPE", "DXY"}
ConfiguredKeys == FredKeys \cup NonFredKeys
\* a key no table knows: fetch() accepts any string
UnlistedKey == "UNLISTED"
Keys == ConfiguredKeys \cup {UnlistedKey}

\* DATA_SOURCES: name, url and fred_id of each registered indicator
\* (name is the entry's ASCII name_en; frequency is not modelled)
DATA_SOURCES ==
  [k \in ConfiguredKeys |->
     CASE k = "WALCL"  -> [name |-> "Fed Balance Sheet (WALCL)", fred_id |-> Some("WALCL"),
                           url |-> "https://fred.stlouisfed.org/series/WALCL"]
       [] k = "TGA"    -> [name |-> "Treasury General Account", fred_id |-> Some("WTREGEN"),
                           url |-> "https://fred.stlouisfed.org/series/WTREGEN"]
       [] k = "RRP"    -> [name |-> "Overnight Reverse Repo (RRP)", fred_id |-> Some("RRPONTSYD"),
                           url |-> "https://www.newyorkfed.org/markets/desk-operations/reverse-repo"]
       [] k = "SOFR"   -> [name |-> "Secured Overnight Financing Rate", fred_id |-> Some("SOFR"),
                           url |-> "https://www.newyorkfed.org/markets/reference-rates/sofr"]
       [] k = "DGS10"  -> [name |-> "10-Year Treasury Yield", fred_id |-> Some("DGS10"),
                           url |-> "https://fred.stlouisfed.org/series/DGS10"]
       [] k = "DGS2"   -> [name |-> "2-Year Treasury Yield", fred_id |-> Some("DGS2"),
                           url |-> "https://fred.stlouisfed.org/series/DGS2"]
       [] k = "T10Y2Y" -> [name |-> "10Y-2Y Treasury Spread", fred_id |-> Some("T10Y2Y"),
                           url |-> "https://fred.stlouisfed.org/series/T10Y2Y"]
       [] k = "HY_OAS" -> [name |-> "High Yield OAS", fred_id |-> Some("BAMLH0A0HYM2"),
                           url |-> "https://fred.stlouisfed.org/series/BAMLH0A0HYM2"]
       [] k = "IG_OAS" -> [name |-> "Investment Grade OAS", fred_id |-> Some("BAMLC0A0CM"),
                           url |-> "https://fred.stlouisfed.org/series/BAMLC0A0CM"]
       [] k = "VIX"    -> [name |-> "CBOE Volatility Index", fred_id |-> Some("VIXCLS"),
                           url |-> "https://fred.stlouisfed.org/series/VIXCLS"]
       [] k = "SP500_PE" -> [name |-> "S&P 500 PE Ratio (TTM)", fred_id |-> None,
                           url |-> "https://www.multpl.com/s-p-500-pe-ratio"]
       [] k = "SP500_FWD_PE" -> [name |-> "S&P 500 Forward PE Ratio", fred_id |-> None,
                           url |-> "https://en.macromicro.me/series/20052/sp500-forward-pe-ratio"]
       [] k = "SHILLER_CAPE" -> [name |-> "Shiller Cyclically Adjusted PE", fred_id |-> None,
                           url |-> "https://www.longtermtrends.net/sp500-price-earnings-shiller-pe-ratio/"]
       [] k = "DXY"    -> [name |-> "US Dollar Index (DXY)", fred_id |-> None,
                           url |-> "https://www.tradingview.com/symbols/TVC-DXY/"]]

\* DataSource built at the top of fetch(): src_def.get(..) with its defaults
DataSource(k) ==
  IF k \in DOMAIN DATA_SOURCES
  THEN [name |-> DATA_SOURCES[k].name, fred_id |-> DATA_SOURCES[k].fred_id,
        url |-> DATA_SOURCES[k].url]
  ELSE [name |-> k, fred_id |-> None, url |-> ""]

SeriesIds == {DATA_SOURCES[k].fred_id[1] : k \in FredKeys}

\* ------------------------------------------------ MacroDataFetcher tables
\* FALLBACK, in hundredths
FALLBACK ==
  [k \in ConfiguredKeys |->
     CASE k = "WALCL"  -> 660590900
       [] k = "TGA"    -> 90877300
       [] k = "RRP"    -> 100
       [] k = "DGS10"  -> 416
       [] k = "DGS2"   -> 345
       [] k = "T10Y2Y" -> 66
       [] k = "HY_OAS" -> 286
       [] k = "IG_OAS" -> 77
       [] k = "VIX"    -> 1779
       [] k = "SP500_PE" -> 2981
       [] k = "SP500_FWD_PE" -> 2200
       [] k = "DXY"    -> 9690
       [] k = "SOFR"   -> 365
       [] k = "SHILLER_CAPE" -> 4035]

\* VALUE_BOUNDS: (lo, hi) in the source's units (times 100 gives hundredths)
VALUE_BOUNDS ==
  [k \in ConfiguredKeys |->
     CASE k = "WALCL"  -> <<3000000, 15000000>>
       [] k = "TGA"    -> <<0, 2000000>>
       [] k = "RRP"    -> <<0, 3000>>
       [] k = "DGS10"  -> <<0, 20>>
       [] k = "DGS2"   -> <<0, 20>>
       [] k = "T10Y2Y" -> <<-5, 5>>
       [] k = "HY_OAS" -> <<0, 25>>
       [] k = "IG_OAS" -> <<0, 10>>
       [] k = "VIX"    -> <<5, 100>>
       [] k = "SP500_PE" -> <<5, 100>>
       [] k = "SP500_FWD_PE" -> <<5, 100>>
       [] k = "DXY"    -> <<60, 140>>
       [] k = "SOFR"   -> <<0, 20>>
       [] k = "SHILLER_CAPE" -> <<5, 100>>]

\* _validate_value without its upper bound
_validate_value_no_upper(k, v) ==
  IF k \notin DOMAIN VALUE_BOUNDS THEN TRUE
  ELSE VALUE_BOUNDS[k][1] * 100 <= v

\* _validate_value(key, val): no bounds -> True, else lo <= val <= hi
_validate_value(k, v) ==
  IF k \notin DOMAIN VALUE_BOUNDS THEN TRUE
  ELSE LET lo == VALUE_BOUNDS[k][1]
           hi == VALUE_BOUNDS[k][2]
       IN  lo * 100 <= v /\ v <= hi * 100

\* FREDClient._cache_ttl
_cache_ttl == 1800

\* NON_FRED_FETCH_CHAIN: the providers registered for a key, in order
NON_FRED_FETCH_CHAIN(k) ==
  CASE k = "SP500_PE"     -> <<"fetch_multpl_pe">>
    [] k = "SP500_FWD_PE" -> <<"fetch_sp500_forward_pe">>
    [] k = "DXY"          -> <<"fetch_dxy">>
    [] k = "SHILLER_CAPE" -> <<"fetch_multpl_shiller_pe">>
    [] OTHER              -> <<>>

\* upstream values of an indicator: just below its range, on its upper
\* bound, and just above it
Candidates(k) ==
  IF k \in DOMAIN VALUE_BOUNDS
  THEN {VALUE_BOUNDS[k][1] * 100 - 1,
        VALUE_BOUNDS[k][2] * 100, VALUE_BOUNDS[k][2] * 100 + 1}
  ELSE {}

\* what one upstream exchange can end in: the request fails after its
\* retries, the body does not parse, it holds no usable observation, or it
\* holds the value v
Responses(k) ==
  {[v |-> 0, kind |-> c] : c \in {"http_fail", "parse_error", "no_obs"}}
    \cup {[v |-> x, kind |-> "value"] : x \in Candidates(k)}

\* FREDClient._fetch_api: None unless the JSON holds a non-missing observation
_fetch_api(resp) ==
  IF resp.kind = "value" THEN Some(resp.v) ELSE None

\* FREDClient._fetch_csv: None unless a row holds a non-missing value
_fetch_csv(resp) ==
  IF resp.kind = "value" THEN Some(resp.v) ELSE None

\* WebScraper.fetch_multpl_pe: the matched number, kept only if val > 5
fetch_multpl_pe(resp) ==
  IF resp.kind = "value" /\ resp.v > 5 * 100 THEN Some(resp.v) ELSE None

\* WebScraper.fetch_multpl_shiller_pe: the matched number, kept only if val > 5
fetch_multpl_shiller_pe(resp) ==
  IF resp.kind = "value" /\ resp.v > 5 * 100 THEN Some(resp.v) ELSE None

\* YahooFinanceClient.fetch_sp500_forward_pe: forwardPE, kept only if > 0
fetch_sp500_forward_pe(resp) ==
  IF resp.kind = "value" /\ resp.v > 0 THEN Some(resp.v) ELSE None

\* YahooFinanceClient.fetch_dxy = fetch_quote("DX-Y.NYB"): regularMarketPrice
fetch_dxy(resp) ==
  IF resp.kind = "value" THEN Some(resp.v) ELSE None

\* fetch_func() of a chain entry
CallProvider(f, resp) ==
  CASE f = "fetch_multpl_pe"         -> fetch_multpl_pe(resp)
    [] f = "fetch_multpl_shiller_pe" -> fetch_multpl_shiller_pe(resp)
    [] f = "fetch_sp500_forward_pe"  -> fetch_sp500_forward_pe(resp)
    [] f = "fetch_dxy"               -> fetch_dxy(resp)

\* ------------------------------------------------------------------ state
Threads == 1..NumThreads

VARIABLES
  api_key,    \* FREDClient.api_key is set
  _cache,     \* FREDClient._cache: series id -> <<>> or <<val, ts>>
  now,        \* time.time()
  calls,      \* fetch calls started so far
  pc,         \* where each thread is inside fetch()
  key,        \* the indicator key the calls of this behaviour fetch
  chain_i,    \* index of the chain entry the thread is at
  attempts,   \* history: the tiers the call tried, with their outcome
  result,     \* what the call returned or raised
  factors,    \* the list of factor signals given to _vote
  vote,       \* <<>> or <<signal, <<num, den>> >>, the result of _vote
  ind,        \* the scored indicator
  value,      \* its value
  sig,        \* <<>> or <<the signal assigned>>
  agent,      \* the agent whose analyze() is running
  fetched,    \* analyze(): what its fetch calls have returned so far
  agent_result, \* <<>> or <<the AgentResult analyze() returned>>
  run_pc,     \* where run() is
  futures,    \* run(): the state of each agent's future
  results,    \* run() / synthesize(): the list of AgentResults
  report,     \* <<>> or <<the SwarmReport>>
  _db_instance, \* swarm._db_instance: "none" or "db"
  store,      \* the database: the readings and report snapshots saved
  persist_i,  \* _persist_to_db: index of the next reading to save
  second_report, \* <<>> or <<the SwarmReport of a second synthesize(results)>>
  persist_failed, \* history: a database operation of this run() has failed
  http,       \* one network call of a fetch tier: its attempts and sleeps
  backfill,   \* run_backfill: its position, its count, the histories it saw
  worker,     \* per thread: the client call it is in and where
  locks,      \* per client: the thread holding its _lock, or 0
  session,    \* YahooFinanceClient: _crumb, _opener, _session_time
  client_calls, \* client calls begun so far
  quote_raised, \* history: a quote request has raised since the last call began
  files,      \* atomic_write: the target file, the temporary file, the position
  bg          \* server/background.py: _run_lock, _is_running, the calls

fvars == <<api_key, _cache, now, calls, pc, key, chain_i, attempts, result>>
vvars == <<factors, vote>>
svars == <<ind, value, sig>>
avars == <<agent, fetched, agent_result>>
rvars == <<run_pc, futures, results, report, _db_instance, store, persist_i,
          second_report, persist_failed>>
lvars == <<worker, locks, session, client_calls, quote_raised>>
mvars == <<files, bg>>
ovars == <<http, backfill, lvars, mvars>>
vars == <<fvars, vvars, svars, avars, rvars, ovars>>

NoResult == [kind |-> "none", value |-> 0, is_live |-> FALSE,
             source |-> DataSource(UnlistedKey), log |-> "none"]

\* return val, True, source
ReturnLive(k, v) ==
  [kind |-> "return", value |-> v, is_live |-> TRUE,
   source |-> DataSource(k), log |-> "info"]

\* the fallback handed back as if it were live
ReturnFallback_live(k, days_old) ==
  [kind |-> "return", value |-> FALLBACK[k], is_live |-> TRUE,
   source |-> DataSource(k), log |-> IF days_old > 14 THEN "warning" ELSE "info"]

\* return fallback, False, source: a snapshot older than 14 days is logged
\* as a warning
ReturnFallback(k, days_old) ==
  [kind |-> "return", value |-> FALLBACK[k], is_live |-> FALSE,
   source |-> DataSource(k), log |-> IF days_old > 14 THEN "warning" ELSE "info"]

\* raise ValueError(f"No data available for {key}")
RaiseNoData(k) ==
  [kind |-> "raise", value |-> 0, is_live |-> FALSE,
   source |-> DataSource(k), log |-> "ValueError: No data available"]

InitFetcher ==
  /\ api_key \in BOOLEAN
  /\ _cache = [s \in SeriesIds |-> None]
  /\ now = 0
  /\ calls = 0
  /\ pc = [t \in Threads |-> "idle"]
  /\ key \in Keys
  /\ chain_i = [t \in Threads |-> 1]
  /\ attempts = [t \in Threads |-> <<>>]
  /\ result = [t \in Threads |-> NoResult]

\* the tier fetch() turns to once the FRED step or chain entry i-1 is over
NextChainPc(k, i) ==
  IF i <= Len(NON_FRED_FETCH_CHAIN(k)) THEN "chain" ELSE "fallback"

Attempt(tier, i, out) == [tier |-> tier, out |-> out, idx |-> i]

\* how fetch() takes a tier's answer (line 425, line 434): a value that
\* passes _validate_value is returned, None or a discarded value is a failure
Outcome(k, v) ==
  IF v # None /\ _validate_value(k, v[1]) THEN "ok" ELSE "fail"

\* fetch(), top: build the DataSource, then FRED if the key has a fred_id.
\* The threads are interchangeable: the first idle one takes the call.
fetch_begin(t) ==
  /\ pc[t] = "idle"
  /\ \A u \in Threads : u < t => pc[u] # "idle"
  /\ calls < MaxCalls
  /\ calls' = calls + 1
  /\ chain_i' = [chain_i EXCEPT ![t] = 1]
  /\ attempts' = [attempts EXCEPT ![t] = <<>>]
  /\ result' = [result EXCEPT ![t] = NoResult]
  /\ pc' = [pc EXCEPT ![t] = IF DataSource(key).fred_id # None
                             THEN "fred_cache" ELSE NextChainPc(key, 1)]
  /\ UNCHANGED <<api_key, _cache, now, key>>
  /\ UNCHANGED <<vvars, svars, avars, rvars, ovars>>

\* a value that fails validation is handed back anyway, flagged not live
fred_returned_flag_invalid(t, v) ==
  IF v # None
  THEN /\ result' = [result EXCEPT ![t] =
                       [ReturnLive(key, v[1]) EXCEPT !.is_live = _validate_value(key, v[1])]]
       /\ pc' = [pc EXCEPT ![t] = "done"]
  ELSE /\ result' = result
       /\ pc' = [pc EXCEPT ![t] = NextChainPc(key, 1)]

\* fetch() lines 424-427: FREDClient.fetch returned v
fred_returned(t, v) ==
  IF v # None /\ _validate_value(key, v[1])
  THEN /\ result' = [result EXCEPT ![t] = ReturnLive(key, v[1])]
       /\ pc' = [pc EXCEPT ![t] = "done"]
  ELSE /\ result' = result
       /\ pc' = [pc EXCEPT ![t] = NextChainPc(key, 1)]

\* the cache check going on to the keyed API although no key is set
fred_cache_check_always_api(t) ==
  /\ pc[t] = "fred_cache"
  /\ LET series_id == DataSource(key).fred_id[1]
         e == _cache[series_id]
     IN  IF e # None /\ now - e[2] < _cache_ttl
         THEN fred_returned(t, Some(e[1]))
         ELSE /\ pc' = [pc EXCEPT ![t] = "fred_api"]
              /\ result' = result
  /\ UNCHANGED <<api_key, _cache, now, calls, key, chain_i, attempts>>
  /\ UNCHANGED <<vvars, svars, avars, rvars, ovars>>

\* the cache check still serving an entry whose age equals the TTL
fred_cache_check_ttl_inclusive(t) ==
  /\ pc[t] = "fred_cache"
  /\ LET series_id == DataSource(key).fred_id[1]
         e == _cache[series_id]
     IN  IF e # None /\ now - e[2] <= _cache_ttl
         THEN fred_returned(t, Some(e[1]))
         ELSE /\ pc' = [pc EXCEPT ![t] = IF api_key THEN "fred_api" ELSE "fred_csv"]
              /\ result' = result
  /\ UNCHANGED <<api_key, _cache, now, calls, key, chain_i, attempts>>
  /\ UNCHANGED <<vvars, svars, avars, rvars, ovars>>

\* FREDClient.fetch, the cache check under the lock
fred_cache_check(t) ==
  /\ pc[t] = "fred_cache"
  /\ LET series_id == DataSource(key).fred_id[1]
         e == _cache[series_id]
     IN  IF e # None /\ now - e[2] < _cache_ttl
         THEN fred_returned(t, Some(e[1]))
         ELSE /\ pc' = [pc EXCEPT ![t] = IF api_key THEN "fred_api" ELSE "fred_csv"]
              /\ result' = result
  /\ UNCHANGED <<api_key, _cache, now, calls, key, chain_i, attempts>>
  /\ UNCHANGED <<vvars, svars, avars, rvars, ovars>>

\* FREDClient.fetch, the keyed API request and what follows its answer
fred_api(t, resp) ==
  /\ pc[t] = "fred_api"
  /\ LET series_id == DataSource(key).fred_id[1]
         v == _fetch_api(resp)
     IN  /\ attempts' = [attempts EXCEPT ![t] = Append(@, Attempt("api", 0, Outcome(key, v)))]
         /\ IF v # None
            THEN /\ _cache' = [_cache EXCEPT ![series_id] = <<v[1], now>>]
                 /\ fred_returned(t, v)
            ELSE /\ _cache' = _cache
                 /\ pc' = [pc EXCEPT ![t] = "fred_csv"]
                 /\ result' = result
  /\ UNCHANGED <<api_key, now, calls, key, chain_i>>
  /\ UNCHANGED <<vvars, svars, avars, rvars, ovars>>

\* FREDClient.fetch, the CSV request and what follows its answer
fred_csv(t, resp) ==
  /\ pc[t] = "fred_csv"
  /\ LET series_id == DataSource(key).fred_id[1]
         v == _fetch_csv(resp)
     IN  /\ attempts' = [attempts EXCEPT ![t] = Append(@, Attempt("csv", 0, Outcome(key, v)))]
         /\ _cache' = IF v # None THEN [_cache EXCEPT ![series_id] = <<v[1], now>>]
                      ELSE _cache
         /\ fred_returned(t, v)
  /\ UNCHANGED <<api_key, now, calls, key, chain_i>>
  /\ UNCHANGED <<vvars, svars, avars, rvars, ovars>>

\* the chain without its try/except: a provider's error ends the call
fetch_chain_uncaught(t, resp) ==
  /\ pc[t] = "chain"
  /\ LET i == chain_i[t]
         v == CallProvider(NON_FRED_FETCH_CHAIN(key)[i], resp)
     IN  /\ attempts' = [attempts EXCEPT ![t] = Append(@, Attempt("alt", i, Outcome(key, v)))]
         /\ IF resp.kind = "parse_error"
            THEN /\ result' = [result EXCEPT ![t] =
                                 [RaiseNoData(key) EXCEPT !.log = "Exception"]]
                 /\ pc' = [pc EXCEPT ![t] = "done"]
                 /\ chain_i' = chain_i
            ELSE IF v # None /\ _validate_value(key, v[1])
            THEN /\ result' = [result EXCEPT ![t] = ReturnLive(key, v[1])]
                 /\ pc' = [pc EXCEPT ![t] = "done"]
                 /\ chain_i' = chain_i
            ELSE /\ result' = result
                 /\ chain_i' = [chain_i EXCEPT ![t] = i + 1]
                 /\ pc' = [pc EXCEPT ![t] = NextChainPc(key, i + 1)]
  /\ UNCHANGED <<api_key, _cache, now, calls, key>>
  /\ UNCHANGED <<vvars, svars, avars, rvars, ovars>>

\* fetch() lines 430-438: one entry of the non-FRED chain
fetch_chain(t, resp) ==
  /\ pc[t] = "chain"
  /\ LET i == chain_i[t]
         v == CallProvider(NON_FRED_FETCH_CHAIN(key)[i], resp)
     IN  /\ attempts' = [attempts EXCEPT ![t] = Append(@, Attempt("alt", i, Outcome(key, v)))]
         /\ IF v # None /\ _validate_value(key, v[1])
            THEN /\ result' = [result EXCEPT ![t] = ReturnLive(key, v[1])]
                 /\ pc' = [pc EXCEPT ![t] = "done"]
                 /\ chain_i' = chain_i
            ELSE /\ result' = result
                 /\ chain_i' = [chain_i EXCEPT ![t] = i + 1]
                 /\ pc' = [pc EXCEPT ![t] = NextChainPc(key, i + 1)]
  /\ UNCHANGED <<api_key, _cache, now, calls, key>>
  /\ UNCHANGED <<vvars, svars, avars, rvars, ovars>>

\* the fallback step refusing a snapshot older than 14 days
fetch_fallback_stale_raises(t, days_old) ==
  /\ pc[t] = "fallback"
  /\ IF key \in DOMAIN FALLBACK /\ days_old <= 14
     THEN /\ result' = [result EXCEPT ![t] = ReturnFallback(key, days_old)]
          /\ attempts' = [attempts EXCEPT ![t] = Append(@, Attempt("fallback", 0, "ok"))]
     ELSE /\ result' = [result EXCEPT ![t] = RaiseNoData(key)]
          /\ attempts' = attempts
  /\ pc' = [pc EXCEPT ![t] = "done"]
  /\ UNCHANGED <<api_key, _cache, now, calls, key, chain_i>>
  /\ UNCHANGED <<vvars, svars, avars, rvars, ovars>>

\* fetch() lines 441-454: the hardcoded value, or ValueError when there is none
fetch_fallback(t, days_old) ==
  /\ pc[t] = "fallback"
  /\ IF key \in DOMAIN FALLBACK
     THEN /\ result' = [result EXCEPT ![t] = ReturnFallback(key, days_old)]
          /\ attempts' = [attempts EXCEPT ![t] = Append(@, Attempt("fallback", 0, "ok"))]
     ELSE /\ result' = [result EXCEPT ![t] = RaiseNoData(key)]
          /\ attempts' = attempts
  /\ pc' = [pc EXCEPT ![t] = "done"]
  /\ UNCHANGED <<api_key, _cache, now, calls, key, chain_i>>
  /\ UNCHANGED <<vvars, svars, avars, rvars, ovars>>

\* the caller takes the result; the call's locals die
fetch_end(t) ==
  /\ pc[t] = "done"
  /\ pc' = [pc EXCEPT ![t] = "idle"]
  /\ chain_i' = [chain_i EXCEPT ![t] = 1]
  /\ attempts' = [attempts EXCEPT ![t] = <<>>]
  /\ result' = [result EXCEPT ![t] = NoResult]
  /\ UNCHANGED <<api_key, _cache, now, calls, key>>
  /\ UNCHANGED <<vvars, svars, avars, rvars, ovars>>

\* time passes
Tick ==
  /\ now < MaxTime
  /\ now' = now + TimeStep
  /\ UNCHANGED <<api_key, _cache, calls, pc, key, chain_i, attempts, result>>
  /\ UNCHANGED <<vvars, svars, avars, rvars, ovars>>

\* ages of the FALLBACK_DATE snapshot, in days, on both sides of the 14 days
FallbackAges == {0, 14, 15}

NextFetch ==
  \/ \E t \in Threads : fetch_begin(t)
  \/ \E t \in Threads : fred_cache_check(t)
  \/ \E t \in Threads : \E resp \in Responses(key) : fred_api(t, resp)
  \/ \E t \in Threads : \E resp \in Responses(key) : fred_csv(t, resp)
  \/ \E t \in Threads : \E resp \in Responses(key) : fetch_chain(t, resp)
  \/ \E t \in Threads, d \in FallbackAges : fetch_fallback(t, d)
  \/ \E t \in Threads : fetch_end(t)
  \/ Tick

\* ------------------------------------------------------- agents.py: _vote
Signals == {"BULLISH", "BEARISH", "NEUTRAL"}

RECURSIVE CountSignal(_, _)
\* sum(1 for f in factors if f.signal == s)
CountSignal(fs, s) ==
  IF fs = <<>> THEN 0
  ELSE (IF Head(fs) = s THEN 1 ELSE 0) + CountSignal(Tail(fs), s)

\* _vote dividing by the directional factors only
_vote_directional_total(fs) ==
  LET bull == CountSignal(fs, "BULLISH")
      bear == CountSignal(fs, "BEARISH")
      total == IF bull + bear = 0 THEN 1 ELSE bull + bear
  IN  IF bull > bear THEN <<"BULLISH", <<bull, total>> >>
      ELSE IF bear > bull THEN <<"BEARISH", <<bear, total>> >>
      ELSE <<"NEUTRAL", <<1, 2>> >>

\* BaseAgent._vote: (signal, confidence); the confidence is the fraction <<num, den>>
_vote(fs) ==
  LET bull == CountSignal(fs, "BULLISH")
      bear == CountSignal(fs, "BEARISH")
      total == IF Len(fs) = 0 THEN 1 ELSE Len(fs)
  IN  IF bull > bear THEN <<"BULLISH", <<bull, total>> >>
      ELSE IF bear > bull THEN <<"BEARISH", <<bear, total>> >>
      ELSE <<"NEUTRAL", <<1, 2>> >>

RECURSIVE SeqsUpTo(_, _)
\* the lists over S of length at most n
SeqsUpTo(S, n) ==
  IF n = 0 THEN {<<>>}
  ELSE LET shorter == SeqsUpTo(S, n - 1)
       IN  shorter \cup {Append(q, x) : q \in shorter, x \in S}

InitVote ==
  /\ factors \in SeqsUpTo(Signals, MaxFactors)
  /\ vote = None

\* signal, conf = self._vote(factors)
call_vote ==
  /\ vote = None
  /\ vote' = Some(_vote(factors))
  /\ UNCHANGED <<factors, fvars, svars, avars, rvars, ovars>>

\* ------------------------------------- agents.py / config.py: indicator scoring
\* THRESHOLDS, in hundredths (NET_LIQUIDITY in hundredths of a trillion,
\* ERP in hundredths of a percent); hist_avg is 0 where the source has none
THRESHOLDS ==
  [i \in {"NET_LIQUIDITY", "VIX", "HY_OAS", "T10Y2Y", "DXY", "TTM_PE",
          "FWD_PE", "ERP"} |->
     CASE i = "NET_LIQUIDITY" -> [bull |-> 600, bear |-> 550, hist_avg |-> 0]
       [] i = "VIX"    -> [bull |-> 1500, bear |-> 2500, hist_avg |-> 0]
       [] i = "HY_OAS" -> [bull |-> 300, bear |-> 500, hist_avg |-> 0]
       [] i = "T10Y2Y" -> [bull |-> 0, bear |-> -50, hist_avg |-> 0]
       [] i = "DXY"    -> [bull |-> 10000, bear |-> 10500, hist_avg |-> 0]
       [] i = "TTM_PE" -> [bull |-> 1800, bear |-> 2500, hist_avg |-> 1970]
       [] i = "FWD_PE" -> [bull |-> 1800, bear |-> 2200, hist_avg |-> 1700]
       [] i = "ERP"    -> [bull |-> 200, bear |-> 100, hist_avg |-> 250]]

\* the indicators scored directly on one fetched value
ScoredIndicators == {"VIX", "HY_OAS", "T10Y2Y", "DXY", "TTM_PE", "FWD_PE"}

\* the key an agent fetches for a scored indicator
FetchKey(i) ==
  CASE i = "TTM_PE" -> "SP500_PE"
    [] i = "FWD_PE" -> "SP500_FWD_PE"
    [] OTHER        -> i

\* ValuationAgent.analyze, TTM PE
pe_sig(pe_val) ==
  IF pe_val > THRESHOLDS["TTM_PE"].bear THEN "BEARISH"
  ELSE IF pe_val < THRESHOLDS["TTM_PE"].bull THEN "BULLISH" ELSE "NEUTRAL"

\* ValuationAgent.analyze, Forward PE
fwd_sig(fwd_val) ==
  IF fwd_val > THRESHOLDS["FWD_PE"].bear THEN "BEARISH"
  ELSE IF fwd_val < THRESHOLDS["FWD_PE"].bull THEN "BULLISH" ELSE "NEUTRAL"

\* the VIX rule with inclusive thresholds
vix_sig_inclusive(vix_val) ==
  IF vix_val <= THRESHOLDS["VIX"].bull THEN "BULLISH"
  ELSE IF vix_val >= THRESHOLDS["VIX"].bear THEN "BEARISH" ELSE "NEUTRAL"

\* RiskSentimentAgent.analyze, VIX
vix_sig(vix_val) ==
  IF vix_val < THRESHOLDS["VIX"].bull THEN "BULLISH"
  ELSE IF vix_val > THRESHOLDS["VIX"].bear THEN "BEARISH" ELSE "NEUTRAL"

\* RiskSentimentAgent.analyze, HY OAS
hy_sig(hy_val) ==
  IF hy_val < THRESHOLDS["HY_OAS"].bull THEN "BULLISH"
  ELSE IF hy_val > THRESHOLDS["HY_OAS"].bear THEN "BEARISH" ELSE "NEUTRAL"

\* RiskSentimentAgent.analyze, 10Y-2Y spread
sp_sig(sp_val) ==
  IF sp_val > THRESHOLDS["T10Y2Y"].bull THEN "BULLISH"
  ELSE IF sp_val < THRESHOLDS["T10Y2Y"].bear THEN "BEARISH" ELSE "NEUTRAL"

\* RiskSentimentAgent.analyze, DXY
dxy_sig(dxy_val) ==
  IF dxy_val < THRESHOLDS["DXY"].bull THEN "BULLISH"
  ELSE IF dxy_val > THRESHOLDS["DXY"].bear THEN "BEARISH" ELSE "NEUTRAL"

\* the signal the owning agent gives indicator i at value v
FactorSignal(i, v) ==
  CASE i = "TTM_PE" -> pe_sig(v)
    [] i = "FWD_PE" -> fwd_sig(v)
    [] i = "VIX"    -> vix_sig(v)
    [] i = "HY_OAS" -> hy_sig(v)
    [] i = "T10Y2Y" -> sp_sig(v)
    [] i = "DXY"    -> dxy_sig(v)

\* in-bounds values of indicator i: the bounds, the fallback, and each
\* threshold with its two neighbours
ScoreValues(i) ==
  LET k == FetchKey(i)
      th == THRESHOLDS[i]
  IN  {v \in {VALUE_BOUNDS[k][1] * 100, VALUE_BOUNDS[k][2] * 100, FALLBACK[k],
              th.bull - 1, th.bull, th.bull + 1,
              th.bear - 1, th.bear, th.bear + 1} : _validate_value(k, v)}

InitScore ==
  /\ ind \in ScoredIndicators
  /\ value \in ScoreValues(ind)
  /\ sig = None

\* the agent assigns the factor's signal
assign_signal ==
  /\ sig = None
  /\ sig' = Some(FactorSignal(ind, value))
  /\ UNCHANGED <<ind, value, fvars, vvars, avars, rvars, ovars>>

\* ----------------------------------------------------- exact arithmetic
\* The source computes in floats; the model computes the same expressions
\* exactly, as fractions <<n, d>> with d > 0, in lowest terms.
Abs(x) == IF x < 0 THEN -x ELSE x

RECURSIVE GCD(_, _)
GCD(a, b) == IF b = 0 THEN a ELSE GCD(b, a % b)

\* n / d
Frac(n, d) ==
  LET g == GCD(Abs(n), Abs(d))
      s == IF d < 0 THEN -1 ELSE 1
  IN  <<(s * n) \div g, (s * d) \div g>>

FracAdd(p, q) == Frac(p[1] * q[2] + q[1] * p[2], p[2] * q[2])
FracSub(p, q) == Frac(p[1] * q[2] - q[1] * p[2], p[2] * q[2])
FracMul(p, q) == Frac(p[1] * q[1], p[2] * q[2])
FracDiv(p, q) == Frac(p[1] * q[2], p[2] * q[1])
FracLess(p, q) == p[1] * q[2] < q[1] * p[2]

\* round(n / d) to the nearest integer, a tie going to the even one (d > 0)
RoundHalfEven(n, d) ==
  LET q == n \div d
      r == n % d
  IN  IF 2 * r < d THEN q
      ELSE IF 2 * r > d THEN q + 1
      ELSE IF q % 2 = 0 THEN q ELSE q + 1

\* ------------------------------------------------ agents.py: the three agents
Agents == {"LiquidityAgent", "ValuationAgent", "RiskSentimentAgent"}

\* the FactorCategory each agent is constructed with
category(a) ==
  CASE a = "LiquidityAgent"     -> "LIQUIDITY"
    [] a = "ValuationAgent"     -> "VALUATION"
    [] a = "RiskSentimentAgent" -> "RISK_SENTIMENT"

\* the keys analyze() fetches, in the order it fetches them
AgentKeys(a) ==
  CASE a = "LiquidityAgent"     -> <<"WALCL", "TGA", "RRP">>
    [] a = "ValuationAgent"     -> <<"SP500_PE", "SP500_FWD_PE", "DGS10">>
    [] a = "RiskSentimentAgent" -> <<"VIX", "HY_OAS", "T10Y2Y", "DXY">>

\* FactorReading(...): name is the reading's name_en, current_value is in
\* hundredths of its unit
FactorReading(name_en, current_value, unit, signal, source, is_live) ==
  [name |-> name_en, is_live |-> is_live, source |-> source,
   current_value |-> current_value, unit |-> unit, signal |-> signal]

\* DataSource("计算值", "", None), the source of a computed factor
ComputedSource == [name |-> "computed", fred_id |-> None, url |-> ""]

\* AgentResult(agent_name, category, factors, signal, confidence): error None
AgentResult(a, fs, signal, confidence) ==
  [factors |-> fs, category |-> category(a), signal |-> signal,
   confidence |-> confidence, agent_name |-> a, error |-> None]

\* AgentResult(agent_name, category, error=str(e)): the other fields keep
\* their defaults (no factors, NEUTRAL, 0.5)
ErrorResult(a, msg) ==
  [factors |-> <<>>, category |-> category(a), signal |-> "NEUTRAL",
   confidence |-> <<1, 2>>, agent_name |-> a, error |-> Some(msg)]

\* the signals of a factor list, as _vote reads them
SignalsOf(fs) == [i \in DOMAIN fs |-> fs[i].signal]

\* Net Liquidity with RRP taken in millions like the other two
net_liq_rrp_in_millions(walcl_raw, tga_raw, rrp_val) ==
  walcl_raw - tga_raw - rrp_val

\* LiquidityAgent.analyze: net_liq = walcl_t - tga_b / 1000 - rrp_val / 1000
\* with walcl_t = walcl_raw / 1_000_000 and tga_b = tga_raw / 1_000; the
\* result is in units of 10^-8 trillion (the inputs are in hundredths of a
\* million, a million and a billion)
net_liq(walcl_raw, tga_raw, rrp_val) ==
  walcl_raw - tga_raw - 1000 * rrp_val

\* LiquidityAgent.analyze: the signal of Net Liquidity (n in 10^-8 trillion)
liq_sig(n) ==
  LET th == THRESHOLDS["NET_LIQUIDITY"]
  IN  IF n > th.bull * 1000000 THEN "BULLISH"
      ELSE IF n < th.bear * 1000000 THEN "BEARISH" ELSE "NEUTRAL"

\* the four factors with RRP scored by the Net Liquidity signal
LiquidityFactors_rrp_scored(f) ==
  LET walcl_raw == f[1].value
      tga_raw == f[2].value
      rrp_val == f[3].value
      n == net_liq(walcl_raw, tga_raw, rrp_val)
  IN  << FactorReading("WALCL", RoundHalfEven(walcl_raw, 1000000), "T",
                       "NEUTRAL", f[1].source, f[1].is_live),
         FactorReading("TGA", RoundHalfEven(tga_raw, 100000) * 100, "B",
                       "NEUTRAL", f[2].source, f[2].is_live),
         FactorReading("RRP", RoundHalfEven(rrp_val, 100) * 100, "B",
                       liq_sig(n), f[3].source, f[3].is_live),
         FactorReading("Net Liquidity", RoundHalfEven(n, 1000000), "T",
                       liq_sig(n), ComputedSource,
                       f[1].is_live /\ f[2].is_live /\ f[3].is_live) >>

\* LiquidityAgent.analyze: the four factors built from the three fetches
LiquidityFactors(f) ==
  LET walcl_raw == f[1].value
      tga_raw == f[2].value
      rrp_val == f[3].value
      n == net_liq(walcl_raw, tga_raw, rrp_val)
  IN  << FactorReading("WALCL", RoundHalfEven(walcl_raw, 1000000), "T",
                       "NEUTRAL", f[1].source, f[1].is_live),
         FactorReading("TGA", RoundHalfEven(tga_raw, 100000) * 100, "B",
                       "NEUTRAL", f[2].source, f[2].is_live),
         FactorReading("RRP", RoundHalfEven(rrp_val, 100) * 100, "B",
                       "NEUTRAL", f[3].source, f[3].is_live),
         FactorReading("Net Liquidity", RoundHalfEven(n, 1000000), "T",
                       liq_sig(n), ComputedSource,
                       f[1].is_live /\ f[2].is_live /\ f[3].is_live) >>

\* the ERP without the conversion of the earnings yield to percent
erp_no_percent(fwd_val, y10_val) ==
  Frac(10000 - y10_val * fwd_val, fwd_val)

\* ValuationAgent.analyze: erp = (1 / fwd_val) * 100 - y10_val, as a
\* fraction in hundredths of a percent (fwd_val > 0)
erp(fwd_val, y10_val) ==
  Frac(1000000 - y10_val * fwd_val, fwd_val)

\* ValuationAgent.analyze: the signal of the ERP e
erp_sig(e) ==
  LET th_erp == THRESHOLDS["ERP"]
  IN  IF FracLess(<<th_erp.bull, 1>>, e) THEN "BULLISH"
      ELSE IF FracLess(e, <<th_erp.bear, 1>>) THEN "BEARISH" ELSE "NEUTRAL"

\* the zero guard replacing the Forward PE but leaving its live flag alone
ValuationFactors_guard_keeps_live(f) ==
  LET pe_val == f[1].value
      y10_val == f[3].value
      guarded == f[2].value <= 0
      fwd_val == IF guarded THEN THRESHOLDS["FWD_PE"].hist_avg ELSE f[2].value
      e == erp(fwd_val, y10_val)
  IN  << FactorReading("TTM PE", pe_val, "x", pe_sig(pe_val),
                       f[1].source, f[1].is_live),
         FactorReading("Forward PE", f[2].value, "x", fwd_sig(f[2].value),
                       f[2].source, f[2].is_live),
         FactorReading("10Y Yield", y10_val, "%", "NEUTRAL",
                       f[3].source, f[3].is_live),
         FactorReading("ERP", RoundHalfEven(e[1], e[2]), "%", erp_sig(e),
                       ComputedSource, f[2].is_live /\ f[3].is_live) >>

\* ValuationAgent.analyze: the four factors built from the three fetches
ValuationFactors(f) ==
  LET pe_val == f[1].value
      y10_val == f[3].value
      guarded == f[2].value <= 0
      fwd_val == IF guarded THEN THRESHOLDS["FWD_PE"].hist_avg ELSE f[2].value
      fwd_live == IF guarded THEN FALSE ELSE f[2].is_live
      e == erp(fwd_val, y10_val)
  IN  << FactorReading("TTM PE", pe_val, "x", pe_sig(pe_val),
                       f[1].source, f[1].is_live),
         FactorReading("Forward PE", f[2].value, "x", fwd_sig(f[2].value),
                       f[2].source, f[2].is_live),
         FactorReading("10Y Yield", y10_val, "%", "NEUTRAL",
                       f[3].source, f[3].is_live),
         FactorReading("ERP", RoundHalfEven(e[1], e[2]), "%", erp_sig(e),
                       ComputedSource, fwd_live /\ f[3].is_live) >>

\* RiskSentimentAgent.analyze: the four factors built from the four fetches
RiskFactors(f) ==
  << FactorReading("VIX", f[1].value, "", vix_sig(f[1].value),
                   f[1].source, f[1].is_live),
     FactorReading("HY OAS", f[2].value, "%", hy_sig(f[2].value),
                   f[2].source, f[2].is_live),
     FactorReading("Yield Curve", f[3].value, "%", sp_sig(f[3].value),
                   f[3].source, f[3].is_live),
     FactorReading("DXY", f[4].value, "", dxy_sig(f[4].value),
                   f[4].source, f[4].is_live) >>

\* the factors agent a builds once all its fetches have returned
FactorsOf(a, f) ==
  CASE a = "LiquidityAgent"     -> LiquidityFactors(f)
    [] a = "ValuationAgent"     -> ValuationFactors(f)
    [] a = "RiskSentimentAgent" -> RiskFactors(f)

\* analyze(), the path on which no call raises: the factors, then the vote
Analysis(a, f) ==
  LET fs == FactorsOf(a, f)
      v == _vote(SignalsOf(fs))
  IN  AgentResult(a, fs, v[1], v[2])

\* in-bounds values an agent can be handed for key k: for the scored
\* indicators the bounds, the fallback and the thresholds with their
\* neighbours; for the inputs of Net Liquidity and of the ERP, values that
\* put the computed indicator on and next to its thresholds
AgentValues(k) ==
  CASE k = "WALCL" -> {660000000, 690999999, 691000000, 691000001,
                       640999999, 641000000, 641000001}
    [] k = "TGA"   -> {90900000}
    [] k = "RRP"   -> {100, 50000}
    [] k = "DGS10" -> {299, 300, 301, 399, 400, 401, 416}
    [] k = "SP500_PE"     -> ScoreValues("TTM_PE")
    [] k = "SP500_FWD_PE" -> ScoreValues("FWD_PE") \cup {2000, 0, -100}
    [] OTHER -> ScoreValues(k)

\* what fetcher.fetch(k) hands to analyze(): a live in-bounds value, the
\* hardcoded fallback flagged not live, or (from a fetcher whose FALLBACK
\* has no entry for k) the ValueError; a Forward PE of 0 or below comes from
\* a fetcher given to the agent that does not validate against VALUE_BOUNDS
FetchOutcomes(k) ==
  {ReturnLive(k, v) : v \in AgentValues(k)}
    \cup {ReturnFallback(k, 0), RaiseNoData(k)}

\* str(e) of the ValueError fetch raises for key k
NoDataMessage(k) == <<"No data available for", k>>

\* analyze() returning the factors gathered so far next to the error
analyze_step_keeps_factors(out) ==
  /\ agent_result = None
  /\ Len(fetched) < Len(AgentKeys(agent))
  /\ LET k == AgentKeys(agent)[Len(fetched) + 1]
         got == Append(fetched, [value |-> out.value, is_live |-> out.is_live,
                                 source |-> out.source])
     IN  /\ out \in FetchOutcomes(k)
         /\ IF out.kind = "raise"
            THEN /\ agent_result' =
                      Some([ErrorResult(agent, NoDataMessage(k)) EXCEPT
                              !.factors = [i \in DOMAIN fetched |->
                                 FactorReading(AgentKeys(agent)[i], fetched[i].value, "",
                                               "NEUTRAL", fetched[i].source,
                                               fetched[i].is_live)]])
                 /\ fetched' = fetched
            ELSE /\ fetched' = got
                 /\ agent_result' = IF Len(got) = Len(AgentKeys(agent))
                                    THEN Some(Analysis(agent, got)) ELSE None
  /\ UNCHANGED agent
  /\ UNCHANGED <<fvars, vvars, svars, rvars, ovars>>

\* analyze(): the next fetch and what follows it up to the next fetch or the
\* return; an exception is caught by the except clause of analyze()
analyze_step(out) ==
  /\ agent_result = None
  /\ Len(fetched) < Len(AgentKeys(agent))
  /\ LET k == AgentKeys(agent)[Len(fetched) + 1]
         got == Append(fetched, [value |-> out.value, is_live |-> out.is_live,
                                 source |-> out.source])
     IN  /\ out \in FetchOutcomes(k)
         /\ IF out.kind = "raise"
            THEN /\ agent_result' = Some(ErrorResult(agent, NoDataMessage(k)))
                 /\ fetched' = fetched
            ELSE /\ fetched' = got
                 /\ agent_result' = IF Len(got) = Len(AgentKeys(agent))
                                    THEN Some(Analysis(agent, got)) ELSE None
  /\ UNCHANGED agent
  /\ UNCHANGED <<fvars, vvars, svars, rvars, ovars>>

\* every key some agent fetches
AgentFetchKeys == UNION {{AgentKeys(a)[i] : i \in DOMAIN AgentKeys(a)} : a \in Agents}

AllFetchOutcomes == UNION {FetchOutcomes(k) : k \in AgentFetchKeys}

InitAgent ==
  /\ agent \in Agents
  /\ fetched = <<>>
  /\ agent_result = None

NextAgent == \E out \in AllFetchOutcomes : analyze_step(out)

\* ------------------------------------------- swarm.py: SignalSynthesizer
\* AGENT_WEIGHTS, as fractions
AGENT_WEIGHTS ==
  [c \in {"LIQUIDITY", "VALUATION", "RISK_SENTIMENT"} |->
     CASE c = "LIQUIDITY"      -> <<3, 2>>
       [] c = "VALUATION"      -> <<13, 10>>
       [] c = "RISK_SENTIMENT" -> <<1, 1>>]

\* cat_map.get(r.category, 1.0)
cat_map(c) == IF c \in DOMAIN AGENT_WEIGHTS THEN AGENT_WEIGHTS[c] ELSE <<1, 1>>

\* `if r.error:` (every error message of the model is a non-empty string)
IsErrored(r) == r.error # None

RECURSIVE all_factors(_)
\* synthesize, first loop: the factors of the results that carry no error
all_factors(rs) ==
  IF rs = <<>> THEN <<>>
  ELSE (IF IsErrored(Head(rs)) THEN <<>> ELSE Head(rs).factors)
         \o all_factors(Tail(rs))

HasUrl(f) == f.source.url # ""
IsLive(f) == f.is_live
IsFallback(f) == ~f.is_live
IsBullish(f) == f.signal = "BULLISH"
IsBearish(f) == f.signal = "BEARISH"
IsNeitherBullNorBear(f) == f.signal \notin {"BULLISH", "BEARISH"}

\* label = f"{f.name} ({f.current_value}{f.unit})"
label(f) == <<f.name, f.current_value, f.unit>>

Labels(fs) == [i \in DOMAIN fs |-> label(fs[i])]

\* all_sources: the source of every factor whose source has a url
all_sources(fs) ==
  LET withUrl == SelectSeq(fs, HasUrl)
  IN  [i \in DOMAIN withUrl |-> withUrl[i].source]

\* the live count taken over the factors that have a source url only
live_count_sourced(fs) == Len(SelectSeq(SelectSeq(fs, HasUrl), IsLive))

\* live_count after the first loop
live_count(fs) == Len(SelectSeq(fs, IsLive))

\* fallback_count after the first loop
fallback_count(fs) == Len(SelectSeq(fs, IsFallback))

\* the weight taken as the confidence alone, without the category's weight
weight_without_category(r) == Frac(r.confidence[1], r.confidence[2])

\* the weight of result r: cat_map.get(r.category, 1.0) * r.confidence
weight(r) == FracMul(cat_map(r.category), Frac(r.confidence[1], r.confidence[2]))

\* the voting loop not skipping a result that carries an error
vote_step_no_skip(acc, r) ==
  LET w == weight(r)
  IN  IF r.signal = "BULLISH"
      THEN [weighted_score |-> FracAdd(acc.weighted_score, w),
            total_weight |-> FracAdd(acc.total_weight, w)]
      ELSE IF r.signal = "BEARISH"
      THEN [weighted_score |-> FracSub(acc.weighted_score, w),
            total_weight |-> FracAdd(acc.total_weight, w)]
      ELSE acc

\* the voting loop letting a NEUTRAL agent add its weight to the total
vote_step_neutral_in_total(acc, r) ==
  LET w == weight(r)
  IN  IF IsErrored(r) THEN acc
      ELSE IF r.signal = "BULLISH"
      THEN [weighted_score |-> FracAdd(acc.weighted_score, w),
            total_weight |-> FracAdd(acc.total_weight, w)]
      ELSE IF r.signal = "BEARISH"
      THEN [weighted_score |-> FracSub(acc.weighted_score, w),
            total_weight |-> FracAdd(acc.total_weight, w)]
      ELSE [acc EXCEPT !.total_weight = FracAdd(acc.total_weight, w)]

\* the voting loop leaving a BEARISH agent's weight out of the total
vote_step_bear_not_in_total(acc, r) ==
  LET w == weight(r)
  IN  IF IsErrored(r) THEN acc
      ELSE IF r.signal = "BULLISH"
      THEN [weighted_score |-> FracAdd(acc.weighted_score, w),
            total_weight |-> FracAdd(acc.total_weight, w)]
      ELSE IF r.signal = "BEARISH"
      THEN [acc EXCEPT !.weighted_score = FracSub(acc.weighted_score, w)]
      ELSE acc

\* synthesize, one pass of the voting loop (lines 81-90)
vote_step(acc, r) ==
  LET w == weight(r)
  IN  IF IsErrored(r) THEN acc
      ELSE IF r.signal = "BULLISH"
      THEN [weighted_score |-> FracAdd(acc.weighted_score, w),
            total_weight |-> FracAdd(acc.total_weight, w)]
      ELSE IF r.signal = "BEARISH"
      THEN [weighted_score |-> FracSub(acc.weighted_score, w),
            total_weight |-> FracAdd(acc.total_weight, w)]
      ELSE acc

RECURSIVE vote_loop(_, _)
\* for r in results: ... from the accumulators acc
vote_loop(acc, rs) ==
  IF rs = <<>> THEN acc ELSE vote_loop(vote_step(acc, Head(rs)), Tail(rs))

\* weighted_score / total_weight if total_weight > 0 else 0
final_score(acc) ==
  IF acc.total_weight[1] > 0
  THEN FracDiv(acc.weighted_score, acc.total_weight) ELSE <<0, 1>>

\* the overall signal with inclusive thresholds
signal_of_score_inclusive(s) ==
  IF ~FracLess(s, <<1, 5>>) THEN "BULLISH"
  ELSE IF ~FracLess(<<-1, 5>>, s) THEN "BEARISH" ELSE "NEUTRAL"

\* synthesize lines 95-100: > 0.2 BULLISH, < -0.2 BEARISH, else NEUTRAL
signal_of_score(s) ==
  IF FracLess(<<1, 5>>, s) THEN "BULLISH"
  ELSE IF FracLess(s, <<-1, 5>>) THEN "BEARISH" ELSE "NEUTRAL"

\* SignalSynthesizer.synthesize(results): the SwarmReport; its timestamp is
\* the default of the dataclass field, datetime.now() at line 39
synthesize(rs) ==
  LET fs == all_factors(rs)
      acc == vote_loop([weighted_score |-> <<0, 1>>, total_weight |-> <<0, 1>>], rs)
      s == final_score(acc)
  IN  [all_sources |-> all_sources(fs), live_count |-> live_count(fs),
       fallback_count |-> fallback_count(fs), weighted_score |-> s,
       agent_results |-> rs, overall_signal |-> signal_of_score(s),
       bull_factors |-> Labels(SelectSeq(fs, IsBullish)),
       neutral_factors |-> Labels(SelectSeq(fs, IsNeitherBullNorBear)),
       bear_factors |-> Labels(SelectSeq(fs, IsBearish)), timestamp |-> now]

\* a live value v and the not-live fallback of key k, as analyze() keeps them
Live(k, v) == [value |-> v, is_live |-> TRUE, source |-> DataSource(k)]
Fall(k) == [value |-> FALLBACK[k], is_live |-> FALSE, source |-> DataSource(k)]

\* fetch results of one analyze() run chosen to give each agent its
\* different votes: all fallbacks first, then live values beyond and on the
\* thresholds
SampleFetches(a) ==
  CASE a = "LiquidityAgent" ->
         { <<Fall("WALCL"), Fall("TGA"), Fall("RRP")>>,
           <<Live("WALCL", 691000001), Live("TGA", 90900000), Live("RRP", 100)>>,
           <<Live("WALCL", 640999999), Live("TGA", 90900000), Fall("RRP")>> }
    [] a = "ValuationAgent" ->
         { <<Fall("SP500_PE"), Fall("SP500_FWD_PE"), Fall("DGS10")>>,
           <<Live("SP500_PE", 1800), Live("SP500_FWD_PE", 1800), Live("DGS10", 416)>>,
           <<Live("SP500_PE", 1799), Live("SP500_FWD_PE", 1799), Fall("DGS10")>> }
    [] a = "RiskSentimentAgent" ->
         { <<Fall("VIX"), Fall("HY_OAS"), Fall("T10Y2Y"), Fall("DXY")>>,
           <<Live("VIX", 1499), Fall("HY_OAS"), Fall("T10Y2Y"), Fall("DXY")>>,
           <<Live("VIX", 1499), Live("HY_OAS", 300), Live("T10Y2Y", 0), Live("DXY", 10000)>>,
           <<Live("VIX", 2501), Live("HY_OAS", 300), Live("T10Y2Y", 0), Live("DXY", 10000)>> }

\* what analyze() of agent a can return: the analyses of the sample fetches
\* and the error result
AnalyzeOutcomes(a) ==
  {Analysis(a, f) : f \in SampleFetches(a)}
    \cup {ErrorResult(a, NoDataMessage(AgentKeys(a)[1]))}

\* AgentResults built directly by a caller of synthesize: an error next to
\* factors and a direction, a direction held with confidence 0, and two
\* readings, a live and a fallback one, of the same source
HandBuilt(a) ==
  LET r == Analysis(a, CHOOSE f \in SampleFetches(a) : f[1].is_live)
  IN  { [r EXCEPT !.error = Some(<<"failed">>), !.signal = "BULLISH",
                  !.confidence = <<1, 1>>],
        AgentResult(a, <<>>, "BEARISH", <<0, 1>>),
        AgentResult(a, <<r.factors[1], [r.factors[1] EXCEPT !.is_live = FALSE]>>,
                    "NEUTRAL", <<1, 2>>) }

\* the results synthesize is given for agent a
SynthInputs(a) == AnalyzeOutcomes(a) \cup HandBuilt(a)

RECURSIVE ListsFor(_)
\* the result lists whose i-th result comes from agent o[i]
ListsFor(o) ==
  IF o = <<>> THEN {<<>>}
  ELSE {<<r>> \o rest : r \in SynthInputs(Head(o)), rest \in ListsFor(Tail(o))}

\* the orders in which some of the agents, each at most once, can complete
AgentOrders ==
  {o \in SeqsUpTo(Agents, Cardinality(Agents)) :
     \A i, j \in DOMAIN o : i # j => o[i] # o[j]}

\* the lists holding at most one result per agent, in every order
ResultLists == UNION {ListsFor(o) : o \in AgentOrders}

InitSynth ==
  /\ results \in ResultLists
  /\ report = None

\* report = self.synthesizer.synthesize(results)
call_synthesize ==
  /\ report = None
  /\ report' = Some(synthesize(results))
  /\ UNCHANGED <<run_pc, futures, results, _db_instance, store, persist_i, second_report, persist_failed>>
  /\ UNCHANGED <<fvars, vvars, svars, avars, ovars>>

\* a second call on a list whose results add their labels to the lists of
\* the report before
call_synthesize_again_shared_lists ==
  /\ report # None
  /\ second_report = None
  /\ LET o == synthesize(results)
     IN  second_report' = Some([o EXCEPT
           !.bull_factors = report[1].bull_factors \o @,
           !.neutral_factors = report[1].neutral_factors \o @,
           !.bear_factors = report[1].bear_factors \o @])
  /\ UNCHANGED <<run_pc, futures, results, report, _db_instance, store, persist_i, persist_failed>>
  /\ UNCHANGED <<fvars, vvars, svars, avars, ovars>>

\* a caller synthesizes the same list once more
call_synthesize_again ==
  /\ report # None
  /\ second_report = None
  /\ second_report' = Some(synthesize(results))
  /\ UNCHANGED <<run_pc, futures, results, report, _db_instance, store, persist_i, persist_failed>>
  /\ UNCHANGED <<fvars, vvars, svars, avars, ovars>>

\* ------------------------------------------------ swarm.py: MacroFactorSwarm
\* a future of the pool: not submitted, running analyze(), finished with a
\* result, or failed with an exception; yielded once as_completed handed it
\* to the loop
NoFuture == [value |-> None, state |-> "none", yielded |-> FALSE]

\* what analyze() hands back inside run(): the analyses of the sample
\* fetches that are all live or all fallbacks, and the error result
RunOutcomes(a) ==
  {Analysis(a, f) : f \in {g \in SampleFetches(a) : \A i \in DOMAIN g : g[i].is_live = g[1].is_live}}
    \cup {ErrorResult(a, NoDataMessage(AgentKeys(a)[1]))}

\* str(e) of an exception that left analyze()
EscapedMessage == <<"exception outside the try block of analyze">>

\* the row db.save_reading inserts for factor f, fetched_at = datetime.now()
Reading(f) ==
  [value |-> f.current_value, is_live |-> f.is_live, unit |-> f.unit,
   signal |-> f.signal, factor_key |-> f.name, source_url |-> f.source.url,
   fetch_method |-> IF f.is_live THEN "live" ELSE "fallback",
   fetched_at |-> now]

\* the row db.save_report inserts for report rep, created_at by default now
Snapshot(rep) ==
  [live_count |-> rep.live_count, fallback_count |-> rep.fallback_count,
   weighted_score |-> rep.weighted_score,
   overall_signal |-> rep.overall_signal, bull_count |-> Len(rep.bull_factors),
   neutral_count |-> Len(rep.neutral_factors),
   bear_count |-> Len(rep.bear_factors), created_at |-> now]

\* _persist_to_db lines 178-181: the factors whose readings are saved
to_save(rs) == all_factors(rs)

\* the empty database: the tables factor_readings, report_snapshots and
\* source_health of SCHEMA_SQL
EmptyStore == [readings |-> <<>>, reports |-> <<>>, source_health |-> <<>>]

\* the row db.record_fetch_attempt inserts into source_health; no call of it
\* exists in fetcher.py or anywhere else, so no action of the model adds one
HealthRow(factor_key, fetch_method, success) ==
  [factor_key |-> factor_key, fetch_method |-> fetch_method, success |-> success]

\* the results of a cycle in which every fetch fell back
FallbackCycle ==
  [i \in 1..3 |->
     LET a == <<"LiquidityAgent", "ValuationAgent", "RiskSentimentAgent">>[i]
     IN  Analysis(a, CHOOSE f \in SampleFetches(a) : \A j \in DOMAIN f : ~f[j].is_live)]

\* the rows a complete cycle with the results rs left at time t
RowsOfCycle(rs, t) ==
  [readings |-> [i \in DOMAIN to_save(rs) |->
                   [Reading(to_save(rs)[i]) EXCEPT !.fetched_at = t]],
   reports |-> <<[Snapshot(synthesize(rs)) EXCEPT !.created_at = t]>>]

RECURSIVE StoreAfter(_)
\* the database after k earlier cycles, one TimeStep apart, the last one a
\* TimeStep before the clock's start
StoreAfter(k) ==
  IF k = 0 THEN EmptyStore
  ELSE LET before == StoreAfter(k - 1)
           rows == RowsOfCycle(FallbackCycle, 0 - (MaxStored - k + 1) * TimeStep)
       IN  [before EXCEPT !.readings = @ \o rows.readings,
                          !.reports = @ \o rows.reports]

\* the database file run() can find: empty, or holding earlier cycles
InitialStores == {StoreAfter(k) : k \in 0..MaxStored}

\* no run() has been called and the database is empty
IdleRun ==
  /\ run_pc = "idle"
  /\ futures = [a \in Agents |-> NoFuture]
  /\ results = <<>>
  /\ report = None
  /\ _db_instance = "none"
  /\ store = EmptyStore
  /\ persist_i = 1
  /\ second_report = None
  /\ persist_failed = FALSE

InitRun ==
  /\ run_pc = "idle"
  /\ futures = [a \in Agents |-> NoFuture]
  /\ results = <<>>
  /\ report = None
  /\ _db_instance = "none"
  /\ store \in InitialStores
  /\ persist_i = 1
  /\ second_report = None
  /\ persist_failed = FALSE

\* run() lines 142-149: every agent's analyze is submitted; with
\* max_workers = 3 all three start at once
run_begin ==
  /\ run_pc = "idle"
  /\ futures' = [a \in Agents |-> [NoFuture EXCEPT !.state = "running"]]
  /\ results' = <<>>
  /\ report' = None
  /\ run_pc' = "collecting"
  /\ UNCHANGED <<_db_instance, store, persist_i, second_report, persist_failed>>
  /\ UNCHANGED <<fvars, vvars, svars, avars, ovars>>

\* a worker thread: analyze() of agent a returns r
analyze_returns(a, r) ==
  /\ futures[a].state = "running"
  /\ r \in RunOutcomes(a)
  /\ futures' = [futures EXCEPT ![a] = [@ EXCEPT !.state = "finished", !.value = Some(r)]]
  /\ UNCHANGED <<run_pc, results, report, _db_instance, store, persist_i, second_report, persist_failed>>
  /\ UNCHANGED <<fvars, vvars, svars, avars, ovars>>

\* a worker thread: an exception leaves analyze() of agent a
analyze_escapes(a) ==
  /\ futures[a].state = "running"
  /\ futures' = [futures EXCEPT ![a] = [@ EXCEPT !.state = "failed"]]
  /\ UNCHANGED <<run_pc, results, report, _db_instance, store, persist_i, second_report, persist_failed>>
  /\ UNCHANGED <<fvars, vvars, svars, avars, ovars>>

\* the result run() appends for the future of agent a (lines 152-160)
collected(a) ==
  IF futures[a].state = "finished" THEN futures[a].value[1]
  ELSE ErrorResult(a, EscapedMessage)

\* the loop that appends nothing for a future that raised
collect_drops_failed(a) ==
  /\ run_pc = "collecting"
  /\ futures[a].state \in {"finished", "failed"}
  /\ ~futures[a].yielded
  /\ LET fut == [futures EXCEPT ![a] = [@ EXCEPT !.yielded = TRUE]]
         rs == IF futures[a].state = "finished"
               THEN Append(results, collected(a)) ELSE results
     IN  /\ futures' = fut
         /\ results' = rs
         /\ IF \A b \in Agents : fut[b].yielded
            THEN /\ report' = Some(synthesize(rs))
                 /\ run_pc' = "persist_get_db"
            ELSE /\ report' = report
                 /\ run_pc' = "collecting"
  /\ UNCHANGED <<_db_instance, store, persist_i, second_report, persist_failed>>
  /\ UNCHANGED <<fvars, vvars, svars, avars, ovars>>

\* run() lines 150-162: as_completed yields the done future of agent a and
\* the loop appends its result; after the last future the pool is left and
\* the results are synthesized
collect(a) ==
  /\ run_pc = "collecting"
  /\ futures[a].state \in {"finished", "failed"}
  /\ ~futures[a].yielded
  /\ LET fut == [futures EXCEPT ![a] = [@ EXCEPT !.yielded = TRUE]]
         rs == Append(results, collected(a))
     IN  /\ futures' = fut
         /\ results' = rs
         /\ IF \A b \in Agents : fut[b].yielded
            THEN /\ report' = Some(synthesize(rs))
                 /\ run_pc' = "persist_get_db"
            ELSE /\ report' = report
                 /\ run_pc' = "collecting"
  /\ UNCHANGED <<_db_instance, store, persist_i, second_report, persist_failed>>
  /\ UNCHANGED <<fvars, vvars, svars, avars, ovars>>

\* run() line 150: the 60 s of as_completed pass while a future is not done;
\* as_completed raises TimeoutError in the for statement, outside the try
collect_timeout ==
  /\ run_pc = "collecting"
  /\ \E a \in Agents : futures[a].state = "running"
  /\ run_pc' = "shutdown"
  /\ UNCHANGED <<futures, results, report, _db_instance, store, persist_i, second_report, persist_failed>>
  /\ UNCHANGED <<fvars, vvars, svars, avars, ovars>>

\* run() line 148: the with statement is left by the TimeoutError; the
\* pool's shutdown(wait=True) has waited for every thread, then run() raises
run_shutdown ==
  /\ run_pc = "shutdown"
  /\ \A a \in Agents : futures[a].state # "running"
  /\ run_pc' = "raised"
  /\ UNCHANGED <<futures, results, report, _db_instance, store, persist_i, second_report, persist_failed>>
  /\ UNCHANGED <<fvars, vvars, svars, avars, ovars>>

\* _get_db() and _persist_to_db lines 173-175: the database is created on
\* first use; when that fails nothing is persisted and run() returns
persist_get_db(ok) ==
  /\ run_pc = "persist_get_db"
  /\ _db_instance' = IF _db_instance = "none" /\ ~ok THEN "none" ELSE "db"
  /\ run_pc' = IF _db_instance' = "db" THEN "persist" ELSE "returned"
  /\ persist_i' = 1
  /\ persist_failed' = (_db_instance' = "none")
  /\ UNCHANGED <<futures, results, report, store, second_report>>
  /\ UNCHANGED <<fvars, vvars, svars, avars, ovars>>

\* a failed save_reading leaving run() with the exception
persist_save_reading_uncaught(ok) ==
  /\ run_pc = "persist"
  /\ persist_i <= Len(to_save(results))
  /\ IF ok
     THEN /\ store' = [store EXCEPT !.readings =
                         Append(@, Reading(to_save(results)[persist_i]))]
          /\ persist_i' = persist_i + 1
          /\ run_pc' = run_pc
     ELSE /\ store' = store
          /\ persist_i' = persist_i
          /\ run_pc' = "raised"
  /\ persist_failed' = ~ok
  /\ UNCHANGED <<futures, results, report, _db_instance, second_report>>
  /\ UNCHANGED <<fvars, vvars, svars, avars, ovars>>

\* _persist_to_db lines 178-191: one db.save_reading; its exception is
\* caught at line 207 and run() returns
persist_save_reading(ok) ==
  /\ run_pc = "persist"
  /\ persist_i <= Len(to_save(results))
  /\ IF ok
     THEN /\ store' = [store EXCEPT !.readings =
                         Append(@, Reading(to_save(results)[persist_i]))]
          /\ persist_i' = persist_i + 1
          /\ run_pc' = run_pc
     ELSE /\ store' = store
          /\ persist_i' = persist_i
          /\ run_pc' = "returned"
  /\ persist_failed' = ~ok
  /\ UNCHANGED <<futures, results, report, _db_instance, second_report>>
  /\ UNCHANGED <<fvars, vvars, svars, avars, ovars>>

\* the snapshot written without waiting for the readings
persist_save_report_early(json_ok, save_ok) ==
  /\ run_pc = "persist"
  /\ store' = IF json_ok /\ save_ok
              THEN [store EXCEPT !.reports = Append(@, Snapshot(report[1]))]
              ELSE store
  /\ run_pc' = "returned"
  /\ persist_failed' = ~(json_ok /\ save_ok)
  /\ UNCHANGED <<futures, results, report, _db_instance, persist_i, second_report>>
  /\ UNCHANGED <<fvars, vvars, svars, avars, ovars>>

\* _persist_to_db lines 194-207: build_report_json, then db.save_report; an
\* exception of either is caught and run() returns
persist_save_report(json_ok, save_ok) ==
  /\ run_pc = "persist"
  /\ persist_i > Len(to_save(results))
  /\ store' = IF json_ok /\ save_ok
              THEN [store EXCEPT !.reports = Append(@, Snapshot(report[1]))]
              ELSE store
  /\ run_pc' = "returned"
  /\ persist_failed' = ~(json_ok /\ save_ok)
  /\ UNCHANGED <<futures, results, report, _db_instance, persist_i, second_report>>
  /\ UNCHANGED <<fvars, vvars, svars, avars, ovars>>

NextRun ==
  \/ run_begin
  \/ \E a \in Agents : \E r \in RunOutcomes(a) : analyze_returns(a, r)
  \/ \E a \in Agents : analyze_escapes(a)
  \/ \E a \in Agents : collect(a)
  \/ collect_timeout
  \/ run_shutdown
  \/ \E ok \in BOOLEAN : persist_get_db(ok)
  \/ \E ok \in BOOLEAN : persist_save_reading(ok)
  \/ \E json_ok, save_ok \in BOOLEAN : persist_save_report(json_ok, save_ok)

\* ---------------------------------------------------------- specifications
IdleFetcher ==
  /\ api_key = FALSE
  /\ _cache = [s \in SeriesIds |-> None]
  /\ now = 0
  /\ calls = 0
  /\ pc = [t \in Threads |-> "idle"]
  /\ key = UnlistedKey
  /\ chain_i = [t \in Threads |-> 1]
  /\ attempts = [t \in Threads |-> <<>>]
  /\ result = [t \in Threads |-> NoResult]

\* ---------------------------------------------------------------------
\* The network calls of the fetch tiers (fetcher.py)
\* ---------------------------------------------------------------------

\* default of the max_retries parameter of _http_get_with_retry
max_retries == 2

\* seconds in a day: the clock counts seconds, a date is a day
SecondsPerDay == 86400

\* what one request can produce: a body, an HTTPError with a transient or a
\* non-transient code, a URLError (the connection failed), or any other
\* exception (a socket timeout or a reset while the body is read)
HttpResponses ==
  {"ok", "http_429", "http_503", "http_404", "url_error", "read_error"}

\* the call sites that go through _http_get_with_retry
RetriedCalls ==
  {"FREDClient._fetch_api", "FREDClient._fetch_csv", "WebScraper._http_get"}

\* the call sites of YahooFinanceClient, which call opener.open themselves
DirectCalls ==
  {"_ensure_session.cookie", "_ensure_session.getcrumb",
   "fetch_quote", "fetch_sp500_forward_pe"}

NetworkCalls == RetriedCalls \cup DirectCalls

NewCall(c) ==
  [call |-> c, attempt |-> 0, slept |-> <<>>, responses |-> <<>>,
   status |-> "pending"]

IdleHttp ==
  http = [call |-> "none", attempt |-> 0, slept |-> <<>>, responses |-> <<>>,
          status |-> "idle"]

InitHttp == http \in {NewCall(c) : c \in NetworkCalls}

\* the loop that sleeps and goes on after any HTTP error
http_get_attempt_retries_any_code(resp) ==
  /\ http.call \in RetriedCalls
  /\ http.status = "pending"
  /\ LET attempt == http.attempt
         sent == [http EXCEPT !.attempt = attempt + 1,
                              !.responses = Append(@, resp)]
         again(secs) == [sent EXCEPT !.slept = Append(@, secs)]
         give_up == [sent EXCEPT !.status = "none"]
     IN http' =
          IF resp = "ok" THEN [sent EXCEPT !.status = "text"]
          ELSE IF resp = "read_error"
          THEN IF attempt < max_retries THEN again(1) ELSE give_up
          ELSE IF attempt < max_retries THEN again(2 ^ attempt) ELSE give_up
  /\ UNCHANGED <<fvars, vvars, svars, avars, rvars, backfill, lvars, mvars>>

\* one iteration of the loop of _http_get_with_retry; http.attempt is the
\* loop variable before the step and the number of requests sent after it
http_get_attempt(resp) ==
  /\ http.call \in RetriedCalls
  /\ http.status = "pending"
  /\ LET attempt == http.attempt
         sent == [http EXCEPT !.attempt = attempt + 1,
                              !.responses = Append(@, resp)]
         again(secs) == [sent EXCEPT !.slept = Append(@, secs)]
         give_up == [sent EXCEPT !.status = "none"]
     IN http' =
          IF resp = "ok" THEN [sent EXCEPT !.status = "text"]
          ELSE IF resp \in {"http_429", "http_503", "http_404"}
          THEN IF resp \in {"http_429", "http_503"} /\ attempt < max_retries
               THEN again(2 ^ attempt)
               ELSE give_up
          ELSE IF resp = "url_error"
          THEN IF attempt < max_retries THEN again(2 ^ attempt) ELSE give_up
          ELSE IF attempt < max_retries THEN again(1) ELSE give_up
  /\ UNCHANGED <<fvars, vvars, svars, avars, rvars, backfill, lvars, mvars>>

\* one opener.open of the Yahoo client: the body is read, or the exception
\* goes to the except clause of the calling method
opener_open(resp) ==
  /\ http.call \in DirectCalls
  /\ http.status = "pending"
  /\ http' = [http EXCEPT !.attempt = 1,
                          !.responses = Append(@, resp),
                          !.status = IF resp = "ok" THEN "text" ELSE "raised"]
  /\ UNCHANGED <<fvars, vvars, svars, avars, rvars, backfill, lvars, mvars>>

NextHttp ==
  \/ \E resp \in HttpResponses : http_get_attempt(resp)
  \/ \E resp \in HttpResponses : opener_open(resp)

\* ---------------------------------------------------------------------
\* The historical backfill (backfill.py)
\* ---------------------------------------------------------------------

\* the prefix substr(fetched_at, 1, 10) of a timestamp: its day
DateOf(t) == t \div SecondsPerDay

\* the days an upstream history can hold: the day of the stored cycles and the
\* day before it
BackfillDates == {DateOf(0 - TimeStep), DateOf(0 - TimeStep) - 1}

\* the keys of FRED_FACTORS in their order
FRED_FACTORS ==
  <<"WALCL", "TGA", "RRP", "10Y Yield", "HY OAS", "Yield Curve", "VIX">>

\* the sources run_backfill goes through before Net Liquidity: the FRED
\* factors, then DXY (Yahoo chart API), then TTM PE (Multpl table)
BackfillKeys == FRED_FACTORS \o <<"DXY", "TTM PE">>

\* the parameters of MacroFactorDB.save_reading
save_reading_params ==
  {"factor_key", "value", "unit", "signal", "is_live", "source_name",
   "source_url", "fetch_method"}

\* the keyword arguments of the save_reading calls of backfill.py
backfill_keywords ==
  {"factor_key", "value", "unit", "signal", "is_live", "source_name",
   "source_url", "fetch_method", "fetched_at"}

\* a call with a keyword the function does not declare raises TypeError
Accepts(params, keywords) == keywords \subseteq params

\* _get_existing_dates: the days on which the factor has a reading
_get_existing_dates(s, factor_key) ==
  {DateOf(s.readings[i].fetched_at) :
     i \in {j \in DOMAIN s.readings : s.readings[j].factor_key = factor_key}}

RECURSIVE DatesInOrder(_)
\* the days of a set, ascending
DatesInOrder(S) ==
  IF S = {} THEN <<>>
  ELSE LET d == CHOOSE x \in S : \A y \in S : x <= y
       IN  <<d>> \o DatesInOrder(S \ {d})

\* the row save_reading inserts for a backfilled observation (the value of
\* the observation is not modelled); fetched_at is set by save_reading
BackfillRow(factor_key) ==
  [value |-> 0, is_live |-> TRUE, unit |-> "", signal |-> "NEUTRAL",
   factor_key |-> factor_key, source_url |-> "",
   fetch_method |-> "historical_backfill", fetched_at |-> now]

\* the days _backfill_net_liquidity computes a value for: those from which
\* on WALCL, TGA and RRP each have a reading, without the days Net Liquidity
\* has a reading on
NetLiquidityDates(s) ==
  LET walcl == _get_existing_dates(s, "WALCL")
      tga == _get_existing_dates(s, "TGA")
      rrp == _get_existing_dates(s, "RRP")
      known(d, S) == \E e \in S : e <= d
  IN  {d \in walcl \cup tga \cup rrp :
         known(d, walcl) /\ known(d, tga) /\ known(d, rrp)}
      \ _get_existing_dates(s, "Net Liquidity")

IdleBackfill ==
  backfill = [k |-> 1, pc |-> "idle", run |-> 0, fred_api_key |-> "",
              upstream |-> [i \in DOMAIN BackfillKeys |-> None],
              total_inserted |-> 0]

\* run_backfill is called (at a server start, or from the background task)
run_backfill_begin(fred_api_key) ==
  /\ backfill.pc \in {"idle", "returned", "raised"}
  /\ backfill.run < BackfillRuns
  /\ backfill.run > 0 => fred_api_key = backfill.fred_api_key
  /\ backfill' = [backfill EXCEPT !.pc = "source", !.run = @ + 1,
                                  !.fred_api_key = fred_api_key, !.k = 1,
                                  !.total_inserted = 0]
  /\ UNCHANGED <<fvars, vvars, svars, avars, rvars, http, lvars, mvars>>

\* one source of run_backfill: the history is fetched (the one an earlier
\* run saw, when it saw one), the days with a reading are skipped and the
\* others are saved
backfill_source(observations) ==
  /\ backfill.pc = "source"
  /\ LET k == backfill.k
         factor_key == BackfillKeys[k]
         skipped == k <= Len(FRED_FACTORS) /\ backfill.fred_api_key = ""
         obs == IF skipped THEN {} ELSE observations
         existing == _get_existing_dates(store, factor_key)
         todo == DatesInOrder(obs \ existing)
         next_pc == IF k = Len(BackfillKeys) THEN "netliq" ELSE "source"
         next_k == IF k = Len(BackfillKeys) THEN k ELSE k + 1
     IN  /\ backfill.upstream[k] # None => observations = backfill.upstream[k][1]
         /\ skipped => observations = {}
         /\ IF todo = <<>>
            THEN /\ backfill' =
                      [backfill EXCEPT !.pc = next_pc, !.k = next_k,
                         !.upstream[k] = IF skipped THEN @ ELSE Some(obs)]
                 /\ store' = store
            ELSE IF Accepts(save_reading_params, backfill_keywords)
            THEN /\ backfill' =
                      [backfill EXCEPT !.pc = next_pc, !.k = next_k,
                         !.upstream[k] = Some(obs),
                         !.total_inserted = @ + Len(todo)]
                 /\ store' = [store EXCEPT !.readings =
                      @ \o [i \in DOMAIN todo |-> BackfillRow(factor_key)]]
            ELSE /\ backfill' = [backfill EXCEPT !.pc = "raised",
                                                 !.upstream[k] = Some(obs)]
                 /\ store' = store
  /\ UNCHANGED <<run_pc, futures, results, report, _db_instance, persist_i,
                 second_report, persist_failed>>
  /\ UNCHANGED <<fvars, vvars, svars, avars, http, lvars, mvars>>

\* _backfill_net_liquidity and the return of run_backfill
backfill_net_liquidity ==
  /\ backfill.pc = "netliq"
  /\ LET todo == DatesInOrder(NetLiquidityDates(store))
     IN  IF todo = <<>>
         THEN /\ backfill' = [backfill EXCEPT !.pc = "returned"]
              /\ store' = store
         ELSE IF Accepts(save_reading_params, backfill_keywords)
         THEN /\ backfill' = [backfill EXCEPT !.pc = "returned",
                                !.total_inserted = @ + Len(todo)]
              /\ store' = [store EXCEPT !.readings =
                   @ \o [i \in DOMAIN todo |-> BackfillRow("Net Liquidity")]]
         ELSE /\ backfill' = [backfill EXCEPT !.pc = "raised"]
              /\ store' = store
  /\ UNCHANGED <<run_pc, futures, results, report, _db_instance, persist_i,
                 second_report, persist_failed>>
  /\ UNCHANGED <<fvars, vvars, svars, avars, http, lvars, mvars>>

NextBackfill ==
  \/ \E fred_api_key \in {"", "KEY"} : run_backfill_begin(fred_api_key)
  \/ \E observations \in SUBSET BackfillDates : backfill_source(observations)
  \/ backfill_net_liquidity

\* ---------------------------------------------------------------------
\* The locks of FREDClient and YahooFinanceClient (fetcher.py)
\* ---------------------------------------------------------------------

\* YahooFinanceClient._session_ttl
_session_ttl == 600

\* two of the FRED series, asked for by the threads
LockSeries == {"WALCL", "VIXCLS"}

\* what a request of a client can bring back: nothing, or a value
ClientResponses == {None, Some(100)}

\* a thread at rest; val and opener are the locals of the call (the value
\* fetched, or the crumb copied), ret is what it returned; hit, found, must
\* and handshake are history: the return was a cache hit, what the session
\* check found, whether the TTL had elapsed or a quote request had raised
\* when the call began, whether the call stored a new session
NoWork ==
  [pc |-> "idle", call |-> "none", arg |-> "none", val |-> None,
   opener |-> None, ret |-> None, hit |-> FALSE, found |-> "none",
   must |-> FALSE, handshake |-> FALSE]

NoSession == [opener |-> None, crumb |-> None, time |-> 0]

IdleLocks ==
  /\ worker = [t \in Threads |-> NoWork]
  /\ locks = [FREDClient |-> 0, YahooFinanceClient |-> 0]
  /\ session = NoSession
  /\ client_calls = 0
  /\ quote_raised = FALSE

\* a thread at one of these is inside a network request
NetworkPcs == {"api", "csv", "cookie", "getcrumb", "quote"}

\* a thread at one of these stands before a "with self._lock:"; the value is
\* where it is once it has the lock
Held ==
  [lock_read |-> "cache_read", lock_write |-> "cache_write",
   lock_check |-> "check", lock_set |-> "set", lock_clear |-> "clear",
   lock_copy |-> "copy", lock_drop |-> "drop"]

\* the lock a "with self._lock:" takes
LockOf(p) ==
  IF p \in {"lock_read", "lock_write"} THEN "FREDClient"
  ELSE "YahooFinanceClient"

\* everything the client steps leave alone, apart from the cache
outside_clients ==
  <<api_key, now, calls, pc, key, chain_i, attempts, result,
    vvars, svars, avars, rvars, http, backfill, mvars>>

\* with self._lock: the thread enters when the lock is free
acquire(t) ==
  /\ worker[t].pc \in DOMAIN Held
  /\ locks[LockOf(worker[t].pc)] = 0
  /\ locks' = [locks EXCEPT ![LockOf(worker[t].pc)] = t]
  /\ worker' = [worker EXCEPT ![t].pc = Held[@]]
  /\ UNCHANGED <<_cache, session, client_calls, quote_raised, outside_clients>>

\* FREDClient.fetch(series_id) is called
client_fetch(t, series_id) ==
  /\ worker[t].pc \in {"idle", "returned"}
  /\ client_calls < MaxClientCalls
  /\ client_calls' = client_calls + 1
  /\ worker' = [worker EXCEPT ![t] =
       [NoWork EXCEPT !.pc = "lock_read", !.call = "FREDClient.fetch",
                      !.arg = series_id]]
  /\ UNCHANGED <<_cache, locks, session, quote_raised, outside_clients>>

\* the lookup that goes on to the request without leaving the block
fred_cache_read_keeps_lock(t) ==
  /\ worker[t].pc = "cache_read"
  /\ LET e == _cache[worker[t].arg]
         fresh == e # None /\ now - e[2] < _cache_ttl
     IN  /\ worker' = [worker EXCEPT ![t] =
              IF fresh
              THEN [@ EXCEPT !.pc = "returned", !.ret = Some(e[1]), !.hit = TRUE]
              ELSE [@ EXCEPT !.pc = IF api_key THEN "api" ELSE "csv"]]
         /\ locks' = IF fresh THEN [locks EXCEPT !.FREDClient = 0] ELSE locks
  /\ UNCHANGED <<_cache, session, client_calls, quote_raised, outside_clients>>

\* the cache lookup under the lock: a fresh entry is returned, otherwise the
\* thread leaves the block and goes on to the API or to the CSV export
fred_cache_read(t) ==
  /\ worker[t].pc = "cache_read"
  /\ LET e == _cache[worker[t].arg]
     IN  worker' = [worker EXCEPT ![t] =
           IF e # None /\ now - e[2] < _cache_ttl
           THEN [@ EXCEPT !.pc = "returned", !.ret = Some(e[1]), !.hit = TRUE]
           ELSE [@ EXCEPT !.pc = IF api_key THEN "api" ELSE "csv"]]
  /\ locks' = [locks EXCEPT !.FREDClient = 0]
  /\ UNCHANGED <<_cache, session, client_calls, quote_raised, outside_clients>>

\* _fetch_api or _fetch_csv has answered
fred_request(t, resp) ==
  /\ worker[t].pc \in {"api", "csv"}
  /\ worker' = [worker EXCEPT ![t] =
       IF resp # None THEN [@ EXCEPT !.pc = "lock_write", !.val = resp]
       ELSE IF @.pc = "api" THEN [@ EXCEPT !.pc = "csv"]
       ELSE [@ EXCEPT !.pc = "returned"]]
  /\ UNCHANGED <<_cache, locks, session, client_calls, quote_raised, outside_clients>>

\* the cache update under the lock, and the return of the value
fred_cache_write(t) ==
  /\ worker[t].pc = "cache_write"
  /\ _cache' = [_cache EXCEPT ![worker[t].arg] = <<worker[t].val[1], now>>]
  /\ worker' = [worker EXCEPT ![t].pc = "returned", ![t].ret = worker[t].val]
  /\ locks' = [locks EXCEPT !.FREDClient = 0]
  /\ UNCHANGED <<session, client_calls, quote_raised, outside_clients>>

\* the two methods that send a quote request: fetch_quote (DXY, from the
\* Risk agent) and fetch_sp500_forward_pe (from the Valuation agent)
YahooCalls == {"fetch_quote", "fetch_sp500_forward_pe"}

\* the TTL of the stored session has elapsed
SessionExpired == session.crumb # None /\ now - session.time >= _session_ttl

\* fetch_quote or fetch_sp500_forward_pe is called and enters _ensure_session
client_fetch_quote(t, call) ==
  /\ worker[t].pc \in {"idle", "returned"}
  /\ client_calls < MaxClientCalls
  /\ client_calls' = client_calls + 1
  /\ worker' = [worker EXCEPT ![t] =
       [NoWork EXCEPT !.pc = "lock_check", !.call = call,
                      !.arg = IF call = "fetch_quote" THEN "DX-Y.NYB" ELSE "^GSPC",
                      !.must = quote_raised \/ SessionExpired]]
  /\ quote_raised' = FALSE
  /\ UNCHANGED <<_cache, locks, session, outside_clients>>

\* the crumb check that takes any stored crumb, whatever its age
session_check_ignores_ttl(t) ==
  /\ worker[t].pc = "check"
  /\ worker' = [worker EXCEPT
       ![t].pc = IF session.crumb # None THEN "lock_copy" ELSE "cookie",
       ![t].found = IF session.crumb = None THEN "absent"
                    ELSE IF SessionExpired THEN "expired" ELSE "cached"]
  /\ locks' = [locks EXCEPT !.YahooFinanceClient = 0]
  /\ UNCHANGED <<_cache, session, client_calls, quote_raised, outside_clients>>

\* _ensure_session: the crumb check under the lock
session_check(t) ==
  /\ worker[t].pc = "check"
  /\ worker' = [worker EXCEPT
       ![t].pc = IF session.crumb # None /\ now - session.time < _session_ttl
                 THEN "lock_copy" ELSE "cookie",
       ![t].found = IF session.crumb = None THEN "absent"
                    ELSE IF SessionExpired THEN "expired" ELSE "cached"]
  /\ locks' = [locks EXCEPT !.YahooFinanceClient = 0]
  /\ UNCHANGED <<_cache, session, client_calls, quote_raised, outside_clients>>

\* _ensure_session, step 1: the cookie request, whose failure is ignored
session_cookie(t, resp) ==
  /\ worker[t].pc = "cookie"
  /\ worker' = [worker EXCEPT ![t].pc = "getcrumb"]
  /\ UNCHANGED <<_cache, locks, session, client_calls, quote_raised, outside_clients>>

\* _ensure_session, step 2: the crumb request
session_getcrumb(t, resp) ==
  /\ worker[t].pc = "getcrumb"
  /\ worker' = [worker EXCEPT ![t].pc =
       IF resp # None THEN "lock_set" ELSE "lock_clear"]
  /\ UNCHANGED <<_cache, locks, session, client_calls, quote_raised, outside_clients>>

\* _ensure_session: the new session is stored under the lock (crumb and
\* opener are named after the thread whose handshake produced them)
session_set(t) ==
  /\ worker[t].pc = "set"
  /\ session' = [opener |-> Some(t), crumb |-> Some(t), time |-> now]
  /\ worker' = [worker EXCEPT ![t].pc = "lock_copy", ![t].handshake = TRUE]
  /\ locks' = [locks EXCEPT !.YahooFinanceClient = 0]
  /\ UNCHANGED <<_cache, client_calls, quote_raised, outside_clients>>

\* _ensure_session: the setup failed, the session is cleared under the lock
\* and fetch_quote returns None
session_clear(t) ==
  /\ worker[t].pc = "clear"
  /\ session' = [session EXCEPT !.crumb = None, !.opener = None]
  /\ worker' = [worker EXCEPT ![t].pc = "returned"]
  /\ locks' = [locks EXCEPT !.YahooFinanceClient = 0]
  /\ UNCHANGED <<_cache, client_calls, quote_raised, outside_clients>>

\* fetch_quote: crumb and opener are copied under the lock; building the URL
\* from a crumb that is None raises and leads to the except clause
quote_copy(t) ==
  /\ worker[t].pc = "copy"
  /\ worker' = [worker EXCEPT ![t].val = session.crumb,
                              ![t].opener = session.opener,
                              ![t].pc = IF session.crumb # None THEN "quote"
                                        ELSE "lock_drop"]
  /\ locks' = [locks EXCEPT !.YahooFinanceClient = 0]
  /\ UNCHANGED <<_cache, session, client_calls, quote_raised, outside_clients>>

\* fetch_quote: the quote request
quote_request(t, resp) ==
  /\ worker[t].pc = "quote"
  /\ worker' = [worker EXCEPT ![t] =
       IF resp # None THEN [@ EXCEPT !.pc = "returned", !.ret = resp]
       ELSE [@ EXCEPT !.pc = "lock_drop"]]
  /\ quote_raised' = (quote_raised \/ resp = None)
  /\ UNCHANGED <<_cache, locks, session, client_calls, outside_clients>>

\* fetch_quote, except clause: the session is cleared under the lock
quote_drop(t) ==
  /\ worker[t].pc = "drop"
  /\ session' = [session EXCEPT !.crumb = None, !.opener = None]
  /\ worker' = [worker EXCEPT ![t].pc = "returned"]
  /\ locks' = [locks EXCEPT !.YahooFinanceClient = 0]
  /\ UNCHANGED <<_cache, client_calls, quote_raised, outside_clients>>

NextLocks ==
  \/ \E t \in Threads : acquire(t)
  \/ \E t \in Threads : \E series_id \in LockSeries : client_fetch(t, series_id)
  \/ \E t \in Threads : fred_cache_read(t)
  \/ \E t \in Threads : \E resp \in ClientResponses : fred_request(t, resp)
  \/ \E t \in Threads : fred_cache_write(t)
  \/ \E t \in Threads : \E call \in YahooCalls : client_fetch_quote(t, call)
  \/ \E t \in Threads : session_check(t)
  \/ \E t \in Threads : \E resp \in ClientResponses : session_cookie(t, resp)
  \/ \E t \in Threads : \E resp \in ClientResponses : session_getcrumb(t, resp)
  \/ \E t \in Threads : session_set(t)
  \/ \E t \in Threads : session_clear(t)
  \/ \E t \in Threads : quote_copy(t)
  \/ \E t \in Threads : \E resp \in ClientResponses : quote_request(t, resp)
  \/ \E t \in Threads : quote_drop(t)
  \/ Tick

\* ---------------------------------------------------------------------
\* atomic_write (scheduler.py)
\* ---------------------------------------------------------------------

\* a file that does not exist
Absent == [id |-> 0, chunks |-> 0]

\* the first chunks pieces of the content of call id
FileOf(id, chunks) == [id |-> id, chunks |-> chunks]

\* the file holds the whole of some content, or does not exist
Complete(file) == file = Absent \/ file.chunks = ContentChunks

IdleFs ==
  files = [f |-> "none", pc |-> "idle", call |-> 0, target |-> Absent,
           tmp |-> Absent, prev |-> Absent]

\* before the first call the target does not exist, or holds the complete
\* output of an earlier program run
InitFs ==
  files \in {[f |-> "none", pc |-> "idle", call |-> 0, target |-> t,
              tmp |-> Absent, prev |-> t] :
               t \in {Absent, FileOf(0, ContentChunks)}}

\* atomic_write(path, content) is called, by the program or by the program
\* started again after a crash; prev is the target as the call finds it
atomic_write_begin ==
  /\ files.pc \in {"idle", "done", "crashed"}
  /\ files.call < MaxWrites
  /\ files' = [files EXCEPT !.pc = "open", !.call = @ + 1, !.f = "none",
                            !.prev = files.target]
  /\ UNCHANGED <<fvars, vvars, svars, avars, rvars, http, backfill, lvars, bg>>

\* the content written straight to the target path
atomic_write_open_in_place ==
  /\ files.pc = "open"
  /\ files' = [files EXCEPT !.pc = "write", !.f = "target",
                            !.target = FileOf(files.call, 0)]
  /\ UNCHANGED <<fvars, vvars, svars, avars, rvars, http, backfill, lvars, bg>>

\* open(tmp_path, "w"): the temporary file is created or truncated
atomic_write_open ==
  /\ files.pc = "open"
  /\ files' = [files EXCEPT !.pc = "write", !.f = "tmp",
                            !.tmp = FileOf(files.call, 0)]
  /\ UNCHANGED <<fvars, vvars, svars, avars, rvars, http, backfill, lvars, bg>>

\* f.write / f.flush / os.fsync: one more piece of the content reaches the
\* file f was opened on; after the last one the file is closed
atomic_write_write ==
  /\ files.pc = "write"
  /\ files' = [files EXCEPT
       ![files.f].chunks = @ + 1,
       !.pc = IF files[files.f].chunks + 1 = ContentChunks
              THEN "replace" ELSE "write"]
  /\ UNCHANGED <<fvars, vvars, svars, avars, rvars, http, backfill, lvars, bg>>

\* os.replace(tmp_path, path): the rename is one step of the file system
atomic_write_replace ==
  /\ files.pc = "replace"
  /\ files' = [files EXCEPT !.pc = "done",
                      !.target = IF files.tmp = Absent THEN @ ELSE files.tmp,
                      !.tmp = Absent]
  /\ UNCHANGED <<fvars, vvars, svars, avars, rvars, http, backfill, lvars, bg>>

\* the process dies or the power fails inside the call: the files stay as
\* they are
atomic_write_crash ==
  /\ files.pc \in {"open", "write", "replace"}
  /\ files' = [files EXCEPT !.pc = "crashed"]
  /\ UNCHANGED <<fvars, vvars, svars, avars, rvars, http, backfill, lvars, bg>>

NextWrite ==
  \/ atomic_write_begin
  \/ atomic_write_open
  \/ atomic_write_write
  \/ atomic_write_replace
  \/ atomic_write_crash

\* ---------------------------------------------------------------------
\* The background swarm run (server/background.py, server/api.py)
\* ---------------------------------------------------------------------

IdleBg ==
  bg = [pc |-> [t \in Threads |-> "idle"], _run_lock |-> 0,
        _is_running |-> FALSE, response |-> [t \in Threads |-> "none"],
        triggers |-> 0]

\* trigger_swarm_run: the handler answers already_running when the flag is
\* set, otherwise it starts thread t on run_swarm_in_background
trigger_swarm_run(t) ==
  /\ bg.pc[t] \in {"idle", "returned", "skipped"}
  /\ bg.triggers < MaxTriggers
  /\ bg' = IF bg._is_running
           THEN [bg EXCEPT !.triggers = @ + 1, !.response[t] = "already_running"]
           ELSE [bg EXCEPT !.triggers = @ + 1, !.response[t] = "started",
                           !.pc[t] = "acquire"]
  /\ UNCHANGED <<fvars, vvars, svars, avars, rvars, http, backfill, lvars, files>>

\* _run_lock.acquire(blocking=False) that goes on without the lock
bg_acquire_unchecked(t) ==
  /\ bg.pc[t] = "acquire"
  /\ bg' = [bg EXCEPT !._run_lock = IF @ = 0 THEN t ELSE @, !.pc[t] = "locked"]
  /\ UNCHANGED <<fvars, vvars, svars, avars, rvars, http, backfill, lvars, files>>

\* _run_lock.acquire(blocking=False): the call returns when the lock is taken
bg_acquire(t) ==
  /\ bg.pc[t] = "acquire"
  /\ bg' = IF bg._run_lock = 0
           THEN [bg EXCEPT !._run_lock = t, !.pc[t] = "locked"]
           ELSE [bg EXCEPT !.pc[t] = "skipped"]
  /\ UNCHANGED <<fvars, vvars, svars, avars, rvars, http, backfill, lvars, files>>

\* _is_running = True, and run_update is entered
bg_set_running(t) ==
  /\ bg.pc[t] = "locked"
  /\ bg' = [bg EXCEPT !._is_running = TRUE, !.pc[t] = "run_update"]
  /\ UNCHANGED <<fvars, vvars, svars, avars, rvars, http, backfill, lvars, files>>

\* run_update returns True or False, or raises; the finally clause follows
bg_run_update(t, outcome) ==
  /\ bg.pc[t] = "run_update"
  /\ bg' = [bg EXCEPT !.pc[t] = "finally"]
  /\ UNCHANGED <<fvars, vvars, svars, avars, rvars, http, backfill, lvars, files>>

\* finally: _is_running = False
bg_clear_running(t) ==
  /\ bg.pc[t] = "finally"
  /\ bg' = [bg EXCEPT !._is_running = FALSE, !.pc[t] = "release"]
  /\ UNCHANGED <<fvars, vvars, svars, avars, rvars, http, backfill, lvars, files>>

\* finally: _run_lock.release()
bg_release(t) ==
  /\ bg.pc[t] = "release"
  /\ bg' = [bg EXCEPT !._run_lock = 0, !.pc[t] = "returned"]
  /\ UNCHANGED <<fvars, vvars, svars, avars, rvars, http, backfill, lvars, files>>

NextBackground ==
  \/ \E t \in Threads : trigger_swarm_run(t)
  \/ \E t \in Threads : bg_acquire(t)
  \/ \E t \in Threads : bg_set_running(t)
  \/ \E t \in Threads : \E outcome \in {"True", "False", "raise"} : bg_run_update(t, outcome)
  \/ \E t \in Threads : bg_clear_running(t)
  \/ \E t \in Threads : bg_release(t)

IdleMisc == IdleFs /\ IdleBg

\* the variables outside a cycle are at rest
IdleOthers == IdleHttp /\ IdleBackfill /\ IdleLocks /\ IdleMisc

IdleVote == factors = <<>> /\ vote = None
IdleScore == ind = "VIX" /\ value = 0 /\ sig = None

IdleAgent == agent = "LiquidityAgent" /\ fetched = <<>> /\ agent_result = None

InitFetch == InitFetcher /\ IdleVote /\ IdleScore /\ IdleAgent /\ IdleRun /\ IdleOthers
InitVoting == InitVote /\ IdleFetcher /\ IdleScore /\ IdleAgent /\ IdleRun /\ IdleOthers
InitScoring == InitScore /\ IdleFetcher /\ IdleVote /\ IdleAgent /\ IdleRun /\ IdleOthers
InitAnalyze == InitAgent /\ IdleFetcher /\ IdleVote /\ IdleScore /\ IdleRun /\ IdleOthers
InitSynthesize ==
  /\ InitSynth /\ IdleFetcher /\ IdleVote /\ IdleScore /\ IdleAgent
  /\ run_pc = "idle" /\ futures = [a \in Agents |-> NoFuture]
  /\ _db_instance = "none" /\ store = EmptyStore
  /\ persist_i = 1 /\ second_report = None /\ persist_failed = FALSE
  /\ IdleOthers
InitSwarm ==
  IdleFetcher /\ IdleVote /\ IdleScore /\ IdleAgent /\ InitRun /\ IdleOthers

NextVote == call_vote
NextScore == assign_signal
NextSynth ==
  \/ call_synthesize
  \/ call_synthesize_again
  \/ Tick

\* concurrent fetch calls on one MacroDataFetcher
SpecFetch == InitFetch /\ [][NextFetch]_vars

\* _vote on every short factor list
SpecVote == InitVoting /\ [][NextVote]_vars

\* the scoring of every single indicator
SpecScore == InitScoring /\ [][NextScore]_vars

\* analyze() of each agent over the results its fetches can have
SpecAgent == InitAnalyze /\ [][NextAgent]_vars

\* synthesize on the result lists
SpecSynth == InitSynthesize /\ [][NextSynth]_vars

\* one run() of the swarm: the pool, the collection loop, the persistence
SpecRun == InitSwarm /\ [][NextRun]_vars

InitNetwork ==
  /\ IdleFetcher /\ IdleVote /\ IdleScore /\ IdleAgent /\ IdleRun
  /\ InitHttp /\ IdleBackfill /\ IdleLocks /\ IdleMisc

\* one network call of each call site under every sequence of responses
SpecHttp == InitNetwork /\ [][NextHttp]_vars

InitBackfill ==
  /\ IdleFetcher /\ IdleVote /\ IdleScore /\ IdleAgent /\ InitRun
  /\ IdleHttp /\ IdleBackfill /\ IdleLocks /\ IdleMisc

\* run_backfill called again over the same upstream histories
SpecBackfill == InitBackfill /\ [][NextBackfill]_vars

InitLocks ==
  /\ api_key \in BOOLEAN
  /\ _cache = [s \in SeriesIds |-> None]
  /\ now = 0
  /\ calls = 0
  /\ pc = [t \in Threads |-> "idle"]
  /\ key = UnlistedKey
  /\ chain_i = [t \in Threads |-> 1]
  /\ attempts = [t \in Threads |-> <<>>]
  /\ result = [t \in Threads |-> NoResult]
  /\ IdleVote /\ IdleScore /\ IdleAgent /\ IdleRun
  /\ IdleHttp /\ IdleBackfill /\ IdleLocks /\ IdleMisc

\* threads calling FREDClient.fetch and YahooFinanceClient.fetch_quote
SpecLocks == InitLocks /\ [][NextLocks]_vars

InitWrite ==
  /\ IdleFetcher /\ IdleVote /\ IdleScore /\ IdleAgent /\ IdleRun
  /\ IdleHttp /\ IdleBackfill /\ IdleLocks /\ IdleBg /\ InitFs

\* calls of atomic_write on one path, with crashes
SpecWrite == InitWrite /\ [][NextWrite]_vars

InitBackground ==
  /\ IdleFetcher /\ IdleVote /\ IdleScore /\ IdleAgent /\ IdleRun
  /\ IdleHttp /\ IdleBackfill /\ IdleLocks /\ IdleMisc

\* requests to POST /run arriving while runs are under way
SpecBackground == InitBackground /\ [][NextBackground]_vars

\* ------------------------------------------------------------------ claims
Done(t) == pc[t] = "done"
Returned(t) == result[t].kind = "return"
NetworkTiers == {"api", "csv", "alt"}

\* the (lo, hi) range of key k holds v
InBounds(k, v) ==
  VALUE_BOUNDS[k][1] * 100 <= v /\ v <= VALUE_BOUNDS[k][2] * 100

\* the cache entry of the series of the key being fetched
KeyEntry == _cache[DATA_SOURCES[key].fred_id[1]]

\* a network tier of call t delivered the value the call returned
FetchedThisCall(t) ==
  \E i \in DOMAIN attempts[t] :
    attempts[t][i].tier \in NetworkTiers /\ attempts[t][i].out = "ok"

\* every network tier call t tried has failed
AllTiersFailed(t) ==
  \A i \in DOMAIN attempts[t] :
    attempts[t][i].tier \in NetworkTiers => attempts[t][i].out = "fail"

\* call t took its value from FREDClient's cache, without any request
ServedFromCache(t) ==
  /\ Returned(t) /\ result[t].is_live
  /\ attempts[t] = <<>>

\* C1: whatever the tiers answer (live values, cached values, the fallback),
\* a value returned by fetch lies within the (lo, hi) bounds of its key.
C1_ReturnedValueInBounds ==
  \A t \in Threads :
    Returned(t) /\ key \in DOMAIN VALUE_BOUNDS => InBounds(key, result[t].value)

\* a call has returned although upstream delivered an out-of-bounds value,
\* which sits in the cache
C1_Witness ==
  \E t \in Threads :
    /\ Done(t) /\ Returned(t) /\ key \in FredKeys
    /\ KeyEntry # None /\ ~InBounds(key, KeyEntry[1])

\* C2: a failed attempt on the keyed API (no value, or a value discarded as
\* out of bounds) is followed by an attempt on the CSV endpoint.
C2_ApiFailureFallsToCsv ==
  \A t \in Threads : \A i \in DOMAIN attempts[t] :
    attempts[t][i].tier = "api" /\ attempts[t][i].out = "fail"
      => IF i < Len(attempts[t]) THEN attempts[t][i + 1].tier = "csv"
         ELSE pc[t] = "fred_csv"

TierRank(a) ==
  CASE a.tier = "api" -> 1
    [] a.tier = "csv" -> 2
    [] a.tier = "alt" -> 2 + a.idx
    [] a.tier = "fallback" -> 1000

C4_FallbackReturnedNotRaised ==
  \A t \in Threads :
    Done(t) /\ key \in DOMAIN FALLBACK /\ AllTiersFailed(t) /\ ~ServedFromCache(t)
      => /\ result[t].kind = "return"
         /\ result[t].value = FALLBACK[key]
         /\ result[t].is_live = FALSE
         /\ result[t].source = DataSource(key)

\* a network tier failed and the fallback was returned from a snapshot
\* older than 14 days
C4_Witness ==
  \E t \in Threads :
    /\ Done(t) /\ result[t].log = "warning"
    /\ \E i \in DOMAIN attempts[t] :
         attempts[t][i].tier \in NetworkTiers /\ attempts[t][i].out = "fail"

\* C5: fetch raises exactly when its key has no fallback and every tier has
\* failed, and what it raises is the no-data error; no failure inside a tier
\* (HTTP, parsing, provider) ends the call with an error.
C5_RaisesOnlyNoData ==
  \A t \in Threads :
    /\ result[t].kind = "raise"
         => /\ key \notin DOMAIN FALLBACK
            /\ AllTiersFailed(t)
            /\ result[t].log = "ValueError: No data available"
    /\ Done(t) /\ key \notin DOMAIN FALLBACK /\ ~(Returned(t) /\ result[t].is_live)
         => result[t].kind = "raise"
    /\ Done(t) => result[t].kind \in {"return", "raise"}

\* a call has raised
C5_Witness ==
  \E t \in Threads : Done(t) /\ result[t].kind = "raise"

\* C6: a cache check at time T1 on an entry cached at T0 makes no request and
\* hands over the cached value when T1 < T0 + TTL; when T1 >= T0 + TTL (or
\* nothing is cached) the call goes on to a network tier.
C6_CacheServedWithinTtl ==
  [][\A t \in Threads :
       pc[t] = "fred_cache" /\ pc'[t] # "fred_cache" =>
         IF KeyEntry # None /\ now < KeyEntry[2] + _cache_ttl
         THEN /\ pc'[t] \notin {"fred_api", "fred_csv"}
              /\ attempts'[t] = <<>>
              /\ _cache' = _cache
              /\ InBounds(key, KeyEntry[1])
                   => Returned(t)' /\ result'[t].value = KeyEntry[1]
         ELSE pc'[t] = (IF api_key THEN "fred_api" ELSE "fred_csv")]_vars

\* a call was served from the cache some time after the value was cached
C6_Witness ==
  \E t \in Threads :
    /\ Done(t) /\ ServedFromCache(t) /\ key \in FredKeys
    /\ KeyEntry # None /\ now > KeyEntry[2]

\* C7: a value returned with is_live = False is the hardcoded fallback of
\* its key, produced by the fallback step.
C7_NotLiveIsFallback ==
  \A t \in Threads :
    Returned(t) /\ ~result[t].is_live
      => /\ key \in DOMAIN FALLBACK
         /\ result[t].value = FALLBACK[key]
         /\ attempts[t] # <<>>
         /\ attempts[t][Len(attempts[t])].tier = "fallback"

\* a non-FRED key came back not live after its provider failed
C7_Witness ==
  \E t \in Threads :
    /\ Done(t) /\ Returned(t) /\ ~result[t].is_live
    /\ key \in NonFredKeys /\ Len(attempts[t]) = 2

\* C8 as stated: is_live is True only for a value a network tier delivered
\* during this call; a value served without a request is not live.
C8_LiveOnlyIfFetchedThisCall ==
  \A t \in Threads :
    Returned(t) => (result[t].is_live <=> FetchedThisCall(t))

\* C8 as amended: is_live is True exactly when a network tier delivered the
\* value during this call or FREDClient's cache served it; the hardcoded
\* fallback is the only value returned with is_live False.
C8_LiveIffFetchedOrCached ==
  \A t \in Threads :
    Returned(t) =>
      /\ result[t].is_live <=>
           \/ FetchedThisCall(t)
           \/ attempts[t] = <<>> /\ key \in FredKeys /\ KeyEntry # None
      /\ ~result[t].is_live <=>
           attempts[t] # <<>> /\ attempts[t][Len(attempts[t])].tier = "fallback"

\* a call returned a live value without making any request
C8_Witness ==
  \E t \in Threads : Done(t) /\ ServedFromCache(t)

\* the number of factors carrying signal s
NumberOf(s) == Cardinality({i \in DOMAIN factors : factors[i] = s})

\* C9: _vote gives BULLISH with confidence bull/total when bull > bear,
\* BEARISH with bear/total when bear > bull, NEUTRAL with 1/2 otherwise
\* (tie, all NEUTRAL, empty list); NEUTRAL factors count in total only; the
\* confidence lies in [0, 1].
C9_VoteRule ==
  vote # None =>
    LET bull == NumberOf("BULLISH")
        bear == NumberOf("BEARISH")
        total == Len(factors)
        signal == vote[1][1]
        conf == vote[1][2]
    IN  /\ bull > bear => signal = "BULLISH" /\ conf = <<bull, total>>
        /\ bear > bull => signal = "BEARISH" /\ conf = <<bear, total>>
        /\ bull = bear => signal = "NEUTRAL" /\ conf = <<1, 2>>
        /\ conf[2] > 0 /\ 0 <= conf[1] /\ conf[1] <= conf[2]

\* [BULLISH, BULLISH, NEUTRAL] was voted (BULLISH, 2/3)
C9_Witness ==
  /\ factors = <<"BULLISH", "BULLISH", "NEUTRAL">>
  /\ vote = Some(<<"BULLISH", <<2, 3>> >>)

\* C10: a scored indicator is BULLISH iff its value is strictly beyond the
\* bull threshold on the favourable side (below it, above it for the 10Y-2Y
\* spread), BEARISH iff strictly beyond the bear threshold on the other side,
\* NEUTRAL otherwise, a value equal to a threshold included.
C10_ThresholdRule ==
  sig # None =>
    LET bull == THRESHOLDS[ind].bull
        bear == THRESHOLDS[ind].bear
    IN  /\ sig[1] \in Signals
        /\ IF ind = "T10Y2Y"
           THEN /\ sig[1] = "BULLISH" <=> value > bull
                /\ sig[1] = "BEARISH" <=> value < bear
                /\ sig[1] = "NEUTRAL" <=> bear <= value /\ value <= bull
           ELSE /\ sig[1] = "BULLISH" <=> value < bull
                /\ sig[1] = "BEARISH" <=> value > bear
                /\ sig[1] = "NEUTRAL" <=> bull <= value /\ value <= bear

\* a value equal to its bear threshold was scored NEUTRAL
C10_Witness ==
  sig = Some("NEUTRAL") /\ value = THRESHOLDS[ind].bear

\* ------------------------------------------------- claims on the agents
\* analyze() has returned a result that carries no error
Analyzed(a) ==
  agent = a /\ agent_result # None /\ agent_result[1].error = None

\* C11: Net Liquidity is WALCL - TGA - RRP in trillions, WALCL and TGA taken
\* in millions and RRP in billions; its factor is BULLISH iff it is above
\* 6.0, BEARISH iff below 5.5, NEUTRAL otherwise, and shows it rounded to two
\* decimals; WALCL 6.6T, TGA 909B, RRP 1B give 5.69T and NEUTRAL.
C11_NetLiquidityRule ==
  Analyzed("LiquidityAgent") =>
    LET walcl_millions_x100 == fetched[1].value
        tga_millions_x100 == fetched[2].value
        rrp_billions_x100 == fetched[3].value
        \* WALCL - TGA - RRP in hundredths of a million dollars
        net == walcl_millions_x100 - tga_millions_x100 - 1000 * rrp_billions_x100
        trillion == 100000000
        f == agent_result[1].factors[4]
    IN  /\ f.name = "Net Liquidity"
        /\ f.signal = "BULLISH" <=> net > 6 * trillion
        /\ f.signal = "BEARISH" <=> 2 * net < 11 * trillion
        /\ f.signal = "NEUTRAL" <=> 11 * trillion <= 2 * net /\ net <= 6 * trillion
        /\ 2 * Abs(net - f.current_value * (trillion \div 100)) <= trillion \div 100
        /\ walcl_millions_x100 = 660000000 /\ tga_millions_x100 = 90900000
             /\ rrp_billions_x100 = 100
             => f.current_value = 569 /\ f.signal = "NEUTRAL"

\* the Liquidity agent analysed WALCL 6.6T, TGA 909B, RRP 1B
C11_Witness ==
  /\ Analyzed("LiquidityAgent")
  /\ fetched[1].value = 660000000 /\ fetched[2].value = 90900000
  /\ fetched[3].value = 100
  /\ agent_result[1].factors[4].current_value = 569

\* C12: the ERP is (1 / Forward PE) * 100 - 10Y yield; its factor is BULLISH
\* iff it is above 2.0, BEARISH iff below 1.0, NEUTRAL otherwise, and shows
\* it rounded to two decimals; Forward PE 22.0 and a 10Y yield of 4.16 give
\* 0.39 and BEARISH.
C12_ErpRule ==
  (Analyzed("ValuationAgent") /\ fetched[2].value > 0) =>
    LET pe_x100 == fetched[2].value
        y10_x100 == fetched[3].value
        \* ERP in hundredths of a percent, times pe_x100 (which is positive)
        erp_times_pe == 1000000 - y10_x100 * pe_x100
        f == agent_result[1].factors[4]
    IN  /\ f.name = "ERP"
        /\ pe_x100 > 0
        /\ f.signal = "BULLISH" <=> erp_times_pe > 200 * pe_x100
        /\ f.signal = "BEARISH" <=> erp_times_pe < 100 * pe_x100
        /\ f.signal = "NEUTRAL" <=>
             100 * pe_x100 <= erp_times_pe /\ erp_times_pe <= 200 * pe_x100
        /\ 2 * Abs(erp_times_pe - f.current_value * pe_x100) <= pe_x100
        /\ pe_x100 = 2200 /\ y10_x100 = 416
             => f.current_value = 39 /\ f.signal = "BEARISH"

\* the Valuation agent analysed a Forward PE of 22.0 and a 10Y yield of 4.16
C12_Witness ==
  /\ Analyzed("ValuationAgent")
  /\ fetched[2].value = 2200 /\ fetched[3].value = 416
  /\ agent_result[1].factors[4].signal = "BEARISH"

\* C13: when a fetch inside analyze() raises, analyze() returns an
\* AgentResult tagged with the agent's name and category that carries the
\* error and nothing else: no factors (those gathered before the failure are
\* dropped) and no derived signal; analyze() ends in no other way than by
\* returning an AgentResult.
C13_ErrorCaughtInAnalyze ==
  /\ agent_result # None =>
       LET r == agent_result[1]
       IN  /\ r.agent_name = agent /\ r.category = category(agent)
           /\ Len(fetched) < Len(AgentKeys(agent)) <=> r.error # None
           /\ r.error # None =>
                /\ r.factors = <<>>
                /\ r.signal = "NEUTRAL" /\ r.confidence = <<1, 2>>
                /\ r.error = Some(<<"No data available for",
                                    AgentKeys(agent)[Len(fetched) + 1]>>)
           /\ r.error = None => r.factors # <<>>
  /\ agent_result = None => Len(fetched) < Len(AgentKeys(agent))

\* the third fetch of an agent raised after two fetches had returned
C13_Witness ==
  /\ agent_result # None /\ agent_result[1].error # None
  /\ Len(fetched) = 2

\* ---------------------------------------------------- claims on run()
\* C14: an agent whose analyze() raises or is not done when the collection
\* budget ends is recorded as an AgentResult with only its error, tagged with
\* its name and category, and run() still returns a SwarmReport holding the
\* results of the agents that completed; run() does not end by raising.
C14_FailedAgentRecordedRunReturns ==
  /\ run_pc \notin {"shutdown", "raised"}
  /\ report # None =>
       \A a \in Agents :
         \E i \in DOMAIN report[1].agent_results :
           LET r == report[1].agent_results[i]
           IN  /\ r.agent_name = a /\ r.category = category(a)
               /\ futures[a].state = "finished" => r = futures[a].value[1]
               /\ futures[a].state = "failed" =>
                    r.error # None /\ r.factors = <<>>

\* C16: no failure of a persistence step (creating the database, a
\* save_reading, building the report JSON, save_report) makes run() raise
\* or changes the report: once synthesized, the report run() returns is
\* synthesize(results) whatever the persistence steps did.
C16_PersistenceNeverAltersRun ==
  [][(run_pc = "persist_get_db" \/ run_pc = "persist") =>
       (/\ report' = report /\ results' = results
        /\ run_pc' \in {"persist", "returned"}
        /\ report' = Some(synthesize(results)))]_vars

\* run() returned after a save_reading failed part way through the readings
C16_Witness ==
  /\ run_pc = "returned" /\ report # None
  /\ store.reports = <<>>
  /\ 0 < Len(store.readings) /\ Len(store.readings) < Len(to_save(results))

\* ----------------------------------------------- claims on synthesize
NotErrored(r) == r.error = None

RECURSIVE TotalFactors(_)
\* the number of FactorReadings of the results that carry no error
TotalFactors(rs) ==
  IF rs = <<>> THEN 0
  ELSE (IF NotErrored(Head(rs)) THEN Len(Head(rs).factors) ELSE 0)
         + TotalFactors(Tail(rs))

\* the category weight in tenths
WeightTenths(c) ==
  CASE c = "LIQUIDITY" -> 15 [] c = "VALUATION" -> 13 [] c = "RISK_SENTIMENT" -> 10

\* category weight times confidence of result r, in units of 1/120 (the
\* confidences of the model have the denominators 1, 2, 3 and 4)
Weight120(r) ==
  WeightTenths(r.category) * ((12 * r.confidence[1]) \div r.confidence[2])

RECURSIVE SumWeights(_, _)
\* the sum of the weights of the non-errored results with signal s
SumWeights(rs, s) ==
  IF rs = <<>> THEN 0
  ELSE (IF NotErrored(Head(rs)) /\ Head(rs).signal = s
        THEN Weight120(Head(rs)) ELSE 0) + SumWeights(Tail(rs), s)

\* C15: an errored result is skipped entirely: the report's score, overall
\* signal, factor lists, sources and counts are those of synthesizing the
\* list without its errored results, and the accumulated signed and total
\* weights are the same too.
C15_ErroredResultSkipped ==
  report # None =>
    LET rep == report[1]
        others == SelectSeq(results, NotErrored)
        alone == synthesize(others)
        zero == [weighted_score |-> <<0, 1>>, total_weight |-> <<0, 1>>]
    IN  /\ rep.weighted_score = alone.weighted_score
        /\ rep.overall_signal = alone.overall_signal
        /\ rep.bull_factors = alone.bull_factors
        /\ rep.neutral_factors = alone.neutral_factors
        /\ rep.bear_factors = alone.bear_factors
        /\ rep.all_sources = alone.all_sources
        /\ rep.live_count = alone.live_count
        /\ rep.fallback_count = alone.fallback_count
        /\ vote_loop(zero, results) = vote_loop(zero, others)

\* a list was synthesized in which an errored result that still carries
\* factors and a direction stands next to a directional result
C15_Witness ==
  /\ report # None
  /\ \E i, j \in DOMAIN results :
       /\ results[i].error # None /\ results[i].factors # <<>>
       /\ results[i].signal = "BULLISH"
       /\ results[j].error = None /\ results[j].signal = "BEARISH"

\* C17: live_count + fallback_count is the number of FactorReadings of the
\* non-errored results and equals the number of bull, neutral and bear
\* factor labels together.
C17_CountsAddUp ==
  report # None =>
    LET rep == report[1]
    IN  /\ rep.live_count + rep.fallback_count = TotalFactors(results)
        /\ rep.live_count + rep.fallback_count =
             Len(rep.bull_factors) + Len(rep.neutral_factors) + Len(rep.bear_factors)

\* a report with live and fallback factors was built from a list that also
\* holds an errored result
C17_Witness ==
  /\ report # None
  /\ report[1].live_count > 0 /\ report[1].fallback_count > 0
  /\ \E i \in DOMAIN results : results[i].error # None

\* C18: with weight = category weight times confidence over the non-errored
\* results, the score is (sum of BULLISH weights - sum of BEARISH weights) /
\* (sum of BULLISH and BEARISH weights), NEUTRAL results counting in neither,
\* and 0 when that total is 0.
C18_WeightedScoreRule ==
  report # None =>
    LET bull == SumWeights(results, "BULLISH")
        bear == SumWeights(results, "BEARISH")
        score == report[1].weighted_score
    IN  /\ score[2] > 0
        /\ IF bull + bear > 0
           THEN score[1] * (bull + bear) = (bull - bear) * score[2]
           ELSE score = <<0, 1>>

\* the three agents, none errored, voted BULLISH, BEARISH and NEUTRAL
C18_Witness ==
  /\ report # None /\ Len(results) = 3
  /\ \A i \in DOMAIN results : results[i].error = None
  /\ {results[i].signal : i \in DOMAIN results} = Signals
  /\ report[1].weighted_score[1] # 0

\* C19: the weighted score of every report lies in [-1, 1].
C19_ScoreWithinUnitInterval ==
  report # None =>
    LET score == report[1].weighted_score
    IN  score[2] > 0 /\ -score[2] <= score[1] /\ score[1] <= score[2]

\* a report scored exactly -1 from two BEARISH agents and a NEUTRAL one
C19_Witness ==
  /\ report # None /\ report[1].weighted_score = <<-1, 1>>
  /\ Cardinality({i \in DOMAIN results :
                    results[i].error = None /\ results[i].signal = "BEARISH"}) = 2

\* C20: the overall signal is BULLISH iff the score is above 0.2, BEARISH
\* iff it is below -0.2, NEUTRAL otherwise (0.2 and -0.2 included), and
\* NEUTRAL when every agent is neutral or errored.
C20_OverallSignalRule ==
  report # None =>
    LET score == report[1].weighted_score
        overall == report[1].overall_signal
    IN  /\ overall = "BULLISH" <=> 5 * score[1] > score[2]
        /\ overall = "BEARISH" <=> 5 * score[1] < -score[2]
        /\ overall = "NEUTRAL" <=>
             -score[2] <= 5 * score[1] /\ 5 * score[1] <= score[2]
        /\ (\A i \in DOMAIN results :
              results[i].error # None \/ results[i].signal = "NEUTRAL")
             => overall = "NEUTRAL"

\* a report whose score is exactly 0.2 came out NEUTRAL
C20_Witness ==
  /\ report # None
  /\ report[1].weighted_score = <<1, 5>>
  /\ report[1].overall_signal = "NEUTRAL"

\* ------------------------------------ claims on synthesize as a function
\* the lists made of the results of rs, each once, in every order
Reorderings(rs) ==
  {[i \in DOMAIN rs |-> rs[p[i]]] :
     p \in {q \in [DOMAIN rs -> DOMAIN rs] :
              \A i, j \in DOMAIN rs : i # j => q[i] # q[j]}}

\* the number of times x occurs in the list s
Occurrences(s, x) == Cardinality({i \in DOMAIN s : s[i] = x})

\* the lists s and t hold the same elements the same number of times
SameMembers(s, t) ==
  /\ Len(s) = Len(t)
  /\ \A i \in DOMAIN s : Occurrences(s, s[i]) = Occurrences(t, s[i])

\* C21: for any list of AgentResults and any permutation of it, synthesize
\* yields the same overall_signal, weighted_score, live and fallback counts
\* and the same bull, neutral and bear factor-label lists.
C21_OrderInvariant ==
  report # None =>
    \A q \in Reorderings(results) :
      LET o == synthesize(q)
      IN  /\ o.overall_signal = report[1].overall_signal
          /\ o.weighted_score = report[1].weighted_score
          /\ o.live_count = report[1].live_count
          /\ o.fallback_count = report[1].fallback_count
          /\ o.bull_factors = report[1].bull_factors
          /\ o.neutral_factors = report[1].neutral_factors
          /\ o.bear_factors = report[1].bear_factors

\* what every order of the results does share: the signal, the exact score,
\* the counts and the members of the three label lists
SameUpToListOrder ==
  report # None =>
    \A q \in Reorderings(results) :
      LET o == synthesize(q)
      IN  /\ o.overall_signal = report[1].overall_signal
          /\ o.weighted_score = report[1].weighted_score
          /\ o.live_count = report[1].live_count
          /\ o.fallback_count = report[1].fallback_count
          /\ SameMembers(o.bull_factors, report[1].bull_factors)
          /\ SameMembers(o.neutral_factors, report[1].neutral_factors)
          /\ SameMembers(o.bear_factors, report[1].bear_factors)

\* the fields of a SwarmReport that synthesize computes from its input
ComputedFields ==
  {"agent_results", "overall_signal", "weighted_score", "bull_factors",
   "neutral_factors", "bear_factors", "all_sources", "live_count",
   "fallback_count"}

CallOver == run_pc \in {"returned", "raised"}

\* the rows of the list s after its first n rows
RowsAfter(s, n) == SubSeq(s, n + 1, Len(s))

\* on top of the rows of s0, the store holds one snapshot of the report and
\* one reading per FactorReading of every non-errored result, and nothing
\* of s0 was changed
OneCycleAppended(s0) ==
  LET newReadings == RowsAfter(store.readings, Len(s0.readings))
      newReports == RowsAfter(store.reports, Len(s0.reports))
  IN  /\ report # None
      /\ SubSeq(store.readings, 1, Len(s0.readings)) = s0.readings
      /\ SubSeq(store.reports, 1, Len(s0.reports)) = s0.reports
      /\ newReports = <<Snapshot(report[1])>>
      /\ Len(store.reports) = Len(s0.reports) + 1
      /\ Len(newReadings) = TotalFactors(results)
      /\ Len(newReadings) = report[1].live_count + report[1].fallback_count
      /\ \A i \in DOMAIN results :
           NotErrored(results[i]) =>
             \A j \in DOMAIN results[i].factors :
               Cardinality({k \in DOMAIN newReadings :
                              newReadings[k] = Reading(results[i].factors[j])}) = 1

\* C23: each call of run() with a working store appends exactly one report
\* snapshot and exactly one reading per FactorReading of every non-errored
\* AgentResult, and changes no row stored before: after n cycles the store
\* holds n snapshots.
C23_EachRunAppendsOneCycle ==
  (CallOver /\ ~persist_failed) =>
    \E s0 \in InitialStores : OneCycleAppended(s0)

\* the same for the calls of run() that return their report
ReturnedRunAppendedOneCycle ==
  (run_pc = "returned" /\ ~persist_failed) =>
    \E s0 \in InitialStores : OneCycleAppended(s0)

\* a returned run on a store that held an earlier cycle, one agent errored
SecondCycleStored ==
  /\ run_pc = "returned" /\ ~persist_failed
  /\ Len(store.reports) = 2
  /\ \E i \in DOMAIN results : ~NotErrored(results[i])
  /\ report[1].live_count > 0

\* ------------------------------------------------ claims on fetch health
\* the tier attempts made so far, as <<thread, position>>
AttemptsMade == UNION {{<<t, i>> : i \in DOMAIN attempts[t]} : t \in Threads}

\* C24: every tier attempt made during a fetch, successful or failed, is
\* followed by one health record for that indicator and method carrying its
\* success flag, written to the health-tracking store.
C24_EveryAttemptRecorded ==
  /\ Len(store.source_health) = Cardinality(AttemptsMade)
  /\ \A p \in AttemptsMade :
       LET a == attempts[p[1]][p[2]]
       IN  \E j \in DOMAIN store.source_health :
             store.source_health[j] = HealthRow(key, a.tier, a.out = "ok")

\* ------------------------------------------------ claims on all_sources
\* C26: all_sources of a SwarmReport contains only DataSources with a
\* non-empty URL and contains no DataSource twice, for any input list.
C26_SourcesWithUrlNoDuplicates ==
  report # None =>
    LET srcs == report[1].all_sources
    IN  /\ \A i \in DOMAIN srcs : srcs[i].url # ""
        /\ \A i, j \in DOMAIN srcs : i # j => srcs[i] # srcs[j]

\* all_sources holds the source of every factor of a non-errored result
\* that has a URL, once per factor, and no source without a URL
SourcesOncePerFactor ==
  report # None =>
    LET srcs == report[1].all_sources
        fs == all_factors(results)
    IN  /\ \A i \in DOMAIN srcs : srcs[i].url # ""
        /\ \A i \in DOMAIN fs :
             fs[i].source.url # "" =>
               Occurrences(srcs, fs[i].source) =
                 Cardinality({j \in DOMAIN fs : fs[j].source = fs[i].source})
        /\ \A i \in DOMAIN srcs : \E j \in DOMAIN fs : fs[j].source = srcs[i]

\* ------------------------------------------------ claims on the ERP guard
\* C27: when the Forward PE handed to the Valuation agent is zero or
\* negative, the ERP is computed with the historical average 17.0 instead,
\* the ERP factor is marked not live, and analyze() returns an AgentResult
\* without error: the division never has a zero divisor.
C27_NonPositiveForwardPeGuarded ==
  (agent = "ValuationAgent" /\ Len(fetched) = 3 /\ fetched[2].value <= 0) =>
    /\ agent_result # None
    /\ agent_result[1].error = None
    /\ LET f == agent_result[1].factors[4]
           hist_avg_x100 == 1700
           erp_times_avg == 1000000 - fetched[3].value * hist_avg_x100
       IN  /\ f.name = "ERP"
           /\ ~f.is_live
           /\ 2 * Abs(erp_times_avg - f.current_value * hist_avg_x100) <= hist_avg_x100
           /\ f.signal = "BULLISH" <=> erp_times_avg > 200 * hist_avg_x100
           /\ f.signal = "BEARISH" <=> erp_times_avg < 100 * hist_avg_x100

\* a Forward PE of 0 arrived flagged live next to a live 10Y yield
C27_Witness ==
  /\ agent = "ValuationAgent" /\ agent_result # None
  /\ Len(fetched) = 3
  /\ fetched[2].value = 0 /\ fetched[2].is_live /\ fetched[3].is_live
  /\ agent_result[1].error = None

\* ------------------------------------------------ claims on slow agents
\* C30: when an agent's analyze() has not finished as its collection
\* deadline passes, run() does not wait for that thread (it can go on at
\* once) and ends by returning its SwarmReport.
C30_SlowAgentAbandoned ==
  /\ run_pc = "shutdown" => ENABLED run_shutdown
  /\ run_pc # "raised"

\* every run() that saw a deadline pass has waited for each thread and raised
DeadlinePassedRunWaitsAndRaises ==
  /\ run_pc = "raised" =>
       /\ report = None
       /\ \A a \in Agents : futures[a].state \in {"finished", "failed"}
       /\ \E a \in Agents : ~futures[a].yielded
  /\ run_pc \in {"persist_get_db", "persist", "returned"} =>
       \A a \in Agents : futures[a].yielded

\* ---------------------------------------------------------------------
\* C25: retries of the network calls
\* ---------------------------------------------------------------------

HttpOver == http.status \notin {"idle", "pending"}

Transient == {"http_429", "http_503", "url_error", "read_error"}

\* the sleeps of n retries with exponential backoff: 1, 2, 4, ...
ExpBackoff(n) == [i \in 1..n |-> 2 ^ (i - 1)]

\* the call was retried after every transient answer, up to the bound,
\* sleeping exponentially longer, and its last answer ended it
RetriedWithBackoff ==
  /\ http.attempt <= max_retries + 1
  /\ http.slept = ExpBackoff(http.attempt - 1)
  /\ \A i \in 1..(http.attempt - 1) : http.responses[i] \in Transient
  /\ http.responses[http.attempt] \in Transient => http.attempt = max_retries + 1

\* C25: every network call of every fetch tier (keyed API, CSV export, the
\* quote API and its session handshake, HTML scraping) is retried a bounded
\* number of times with exponential backoff on a transient error (HTTP
\* 429/503 or an I/O error), and a non-transient HTTP error ends it at once
C25_AllNetworkCallsRetried == HttpOver => RetriedWithBackoff

\* what the code does: only the calls through _http_get_with_retry are
\* retried, at most max_retries times; the sleep doubles after HTTP 429/503
\* and after a URLError and is one second after any other exception; the
\* Yahoo calls are sent once
RetriedCallsBounded ==
  HttpOver =>
    /\ http.attempt <= max_retries + 1
    /\ http.call \in DirectCalls => http.attempt = 1
    /\ http.call \in RetriedCalls =>
         /\ Len(http.slept) = http.attempt - 1
         /\ \A i \in 1..(http.attempt - 1) :
              /\ http.responses[i] \in Transient
              /\ http.slept[i] =
                   IF http.responses[i] = "read_error" THEN 1 ELSE 2 ^ (i - 1)
         /\ http.responses[http.attempt] \in Transient =>
              http.attempt = max_retries + 1

\* a Yahoo quote request answered with HTTP 503 has ended after one request
QuoteNotRetried ==
  /\ http.call = "fetch_quote"
  /\ http.status = "raised"
  /\ http.responses = <<"http_503">>

\* ---------------------------------------------------------------------
\* C28: the backfill is idempotent
\* ---------------------------------------------------------------------

BackfillOver == backfill.pc \in {"returned", "raised"}

\* the (factor, day) pairs of the backfilled rows, one per row
BackfilledPairs(s) ==
  [i \in {j \in DOMAIN s.readings :
            s.readings[j].fetch_method = "historical_backfill"} |->
     <<s.readings[i].factor_key, DateOf(s.readings[i].fetched_at)>>]

NoPairBackfilledTwice ==
  \A i, j \in DOMAIN BackfilledPairs(store) :
    BackfilledPairs(store)[i] = BackfilledPairs(store)[j] => i = j

\* C28: a run of run_backfill after the first one, over the same upstream
\* history, skips every (factor, day) of it and returns with 0 records
\* inserted, and no (factor, day) pair has two backfilled readings
C28_SecondRunInsertsNothing ==
  /\ (backfill.run >= 2 /\ BackfillOver) =>
       (backfill.pc = "returned" /\ backfill.total_inserted = 0)
  /\ NoPairBackfilledTwice

\* what the code does: a run returns only when every day of every history
\* it fetched already had a reading; any other day ends it with the
\* TypeError of its first save_reading call, and it inserts nothing
BackfillInsertsNothing ==
  /\ backfill.total_inserted = 0
  /\ store \in InitialStores
  /\ backfill.pc = "returned" =>
       \A k \in DOMAIN BackfillKeys :
         backfill.upstream[k] # None =>
           backfill.upstream[k][1] \subseteq
             _get_existing_dates(store, BackfillKeys[k])

\* the second run has raised on a day the first run raised on
SecondRunRaisedAgain ==
  /\ backfill.run = 2 /\ backfill.pc = "raised"
  /\ backfill.upstream[1] # None /\ backfill.upstream[1][1] # {}

\* ---------------------------------------------------------------------
\* C29: the locks are not held across a network request
\* ---------------------------------------------------------------------

InNetwork(t) == worker[t].pc \in NetworkPcs

Holds(t) == locks.FREDClient = t \/ locks.YahooFinanceClient = t

\* C29: no thread holds the FREDClient lock or the Yahoo session lock while
\* a network request of its own is in flight, so a thread that stands before
\* the cache lookup while the other threads are inside network requests (or
\* at rest) can take the lock and finish a cache hit at once
C29_NoLockAcrossNetwork ==
  /\ \A t \in Threads : InNetwork(t) => ~Holds(t)
  /\ \A t \in Threads :
       (/\ worker[t].pc = "lock_read"
        /\ \A u \in Threads \ {t} :
             InNetwork(u) \/ worker[u].pc \in {"idle", "returned"})
       => ENABLED acquire(t)

\* a cache hit for one series has returned while the request of another
\* thread for another series is still in flight
C29_Witness ==
  \E t, u \in Threads :
    /\ worker[t].pc = "returned" /\ worker[t].hit
    /\ worker[u].pc \in {"api", "csv"}
    /\ worker[u].arg # worker[t].arg

\* ---------------------------------------------------------------------
\* C31: the order of the persistence writes
\* ---------------------------------------------------------------------

\* every agent has resolved: its thread is over and run() has appended its
\* result or its failure entry
AllResolved ==
  /\ \A a \in Agents : futures[a].state \in {"finished", "failed"}
  /\ \A a \in Agents : futures[a].yielded
  /\ Len(results) = Cardinality(Agents)

\* the rows this cycle is to write have all been written on top of a store
\* the cycle can have started from, and no snapshot of this cycle yet
ReadingsAllWritten ==
  \E s0 \in InitialStores :
    /\ store.reports = s0.reports
    /\ Len(store.readings) = Len(s0.readings) + Len(to_save(results))
    /\ \A i \in DOMAIN s0.readings : store.readings[i] = s0.readings[i]
    /\ \A i \in DOMAIN to_save(results) :
         store.readings[Len(s0.readings) + i].factor_key = to_save(results)[i].name

\* C31: in a cycle no persistence write happens before every agent has
\* resolved, and the report snapshot is written after all the factor
\* readings of the cycle
C31_WritesAfterAgentsSnapshotLast ==
  [][/\ store' # store => AllResolved
     /\ store'.reports # store.reports => ReadingsAllWritten]_vars

\* a cycle in which an agent failed has written its readings and its snapshot
C31_Witness ==
  /\ run_pc = "returned" /\ ~persist_failed
  /\ \E i \in DOMAIN results : IsErrored(results[i])
  /\ Len(to_save(results)) > 0
  /\ \E s0 \in InitialStores : Len(store.reports) = Len(s0.reports) + 1

\* ---------------------------------------------------------------------
\* C32: the TTL of the Yahoo session and its renewal
\* ---------------------------------------------------------------------

\* the thread is in a Yahoo call and past the session check
PastCheck(t) ==
  /\ worker[t].call \in YahooCalls
  /\ worker[t].found # "none"

\* the thread is inside the handshake its own call has begun
InHandshake(t) ==
  worker[t].pc \in {"cookie", "getcrumb", "lock_set", "set", "lock_clear", "clear"}

\* the thread has got as far as copying the session for its quote request
AtQuote(t) == worker[t].pc \in {"lock_copy", "copy", "quote"}

\* C32: a request that begins while the crumb is cached, younger than 600 s
\* and no quote request has raised performs no handshake; a request that
\* begins once the TTL has elapsed or a quote request has raised performs a
\* fresh cookie + crumb handshake before its quote request is issued
C32_NextRequestHandshakes ==
  \A t \in Threads :
    PastCheck(t) =>
      /\ (worker[t].found = "cached" /\ ~worker[t].must) =>
           (~InHandshake(t) /\ ~worker[t].handshake)
      /\ (worker[t].must /\ AtQuote(t)) => worker[t].handshake

\* C32 as the code has it: a request whose session check finds a crumb
\* younger than 600 s performs no handshake; a request whose check finds
\* the TTL elapsed, or no crumb (the handler of a raised quote request has
\* cleared it), performs a fresh cookie + crumb handshake before its quote
\* request is issued
C32_CheckDecidesHandshake ==
  \A t \in Threads :
    PastCheck(t) =>
      /\ worker[t].found = "cached" =>
           (~InHandshake(t) /\ ~worker[t].handshake)
      /\ (worker[t].found \in {"expired", "absent"} /\ AtQuote(t)) =>
           worker[t].handshake
      /\ (worker[t].found \in {"expired", "absent"} /\ ~worker[t].handshake) =>
           (InHandshake(t) \/ worker[t].pc \in {"check", "returned"})

\* a session stored at time 0 has outlived its TTL and the request that found
\* it so has renewed it and sent its quote request
C32_Witness ==
  \E t \in Threads :
    /\ worker[t].found = "expired" /\ worker[t].handshake
    /\ worker[t].pc = "quote"
    /\ session.time >= _session_ttl

\* a quote request has raised, its handler has cleared the session, and the
\* request that found no crumb has renewed the session
RenewedAfterFailure ==
  \E t, u \in Threads :
    /\ worker[u].call \in YahooCalls /\ worker[u].pc = "returned"
    /\ worker[u].val # None /\ worker[u].ret = None
    /\ worker[t].found = "absent" /\ worker[t].must /\ worker[t].handshake
    /\ worker[t].pc = "quote"

\* ---------------------------------------------------------------------
\* C33: _http_get_with_retry terminates
\* ---------------------------------------------------------------------

\* C33: _http_get_with_retry sends at most max_retries + 1 requests and then
\* is over, with the body or None and never an exception; an HTTP error
\* other than 429/503 ends it with None at the attempt it answers, and no
\* sleep or request follows the last allowed attempt
C33_RetryLoopTerminates ==
  http.call \in RetriedCalls =>
    /\ http.attempt <= max_retries + 1
    /\ http.status \in {"pending", "text", "none"}
    /\ http.attempt = max_retries + 1 => HttpOver
    /\ HttpOver =>
         /\ Len(http.slept) = http.attempt - 1
         /\ http.status = "text" <=> http.responses[http.attempt] = "ok"
    /\ \A i \in DOMAIN http.responses :
         http.responses[i] = "http_404" =>
           (i = http.attempt /\ http.status = "none")

\* three transient answers in a row: the call is over with None after two
\* sleeps
C33_Witness ==
  /\ http.call \in RetriedCalls
  /\ http.status = "none"
  /\ http.attempt = max_retries + 1
  /\ Len(http.slept) = max_retries
  /\ http.responses[http.attempt] = "http_503"

\* a non-transient HTTP error has ended the call at its second attempt
EndedByNonTransient ==
  /\ http.call \in RetriedCalls
  /\ http.status = "none"
  /\ http.responses = <<"url_error", "http_404">>

\* ---------------------------------------------------------------------
\* C34: atomic_write exposes no partial file
\* ---------------------------------------------------------------------

\* C34: at every instant of atomic_write, a crash at any step included, the
\* target path holds its complete previous content or the complete new
\* content
C34_TargetNeverPartial ==
  /\ Complete(files.target)
  /\ files.call > 0 =>
       (files.target = files.prev \/ files.target = FileOf(files.call, ContentChunks))

\* a call has crashed with the temporary file half written, over a target
\* that an earlier call had replaced
C34_Witness ==
  /\ files.pc = "crashed"
  /\ files.tmp.chunks \in 1..(ContentChunks - 1)
  /\ files.target = FileOf(files.call - 1, ContentChunks)
  /\ files.call > 1

\* ---------------------------------------------------------------------
\* C35: one background run at a time
\* ---------------------------------------------------------------------

InRun(t) == bg.pc[t] = "run_update"

HoldsRunLock(t) == bg.pc[t] \in {"locked", "run_update", "finally", "release"}

\* C35: at most one call of run_swarm_in_background is inside run_update; a
\* call made while another one is inside run_update returns without
\* starting a run; is_swarm_running() is true only while a call holds the
\* run lock
C35_OneRunAtATime ==
  /\ \A t, u \in Threads : (InRun(t) /\ InRun(u)) => t = u
  /\ \A t \in Threads : HoldsRunLock(t) <=> bg._run_lock = t
  /\ \A t, u \in Threads :
       (t # u /\ bg.pc[t] = "acquire" /\ InRun(u)) =>
         ~ENABLED (bg_acquire(t) /\ bg'.pc[t] = "locked")
  /\ bg._is_running => bg._run_lock # 0

\* a call has returned without a run while another call is inside run_update
C35_Witness ==
  \E t, u \in Threads :
    /\ bg.pc[t] = "skipped" /\ bg.response[t] = "started"
    /\ InRun(u)

\* ---------------------------------------------------------------------
\* C36: one AgentResult per agent
\* ---------------------------------------------------------------------

\* C36: the SwarmReport run() returns holds exactly one AgentResult for each
\* configured agent, tagged with that agent's name and category, whatever
\* the order of completion and whichever agents failed
C36_OneResultPerAgent ==
  run_pc = "returned" =>
    /\ report # None
    /\ Len(report[1].agent_results) = Cardinality(Agents)
    /\ \A a \in Agents :
         \E i \in DOMAIN report[1].agent_results :
           /\ report[1].agent_results[i].agent_name = a
           /\ report[1].agent_results[i].category = category(a)
           /\ \A j \in DOMAIN report[1].agent_results :
                report[1].agent_results[j].agent_name = a => j = i

\* run() has returned a report in which the agent that finished first is the
\* last of the list built in __init__, one agent's analyze() raised and
\* another returned its own error result
C36_Witness ==
  /\ run_pc = "returned"
  /\ report[1].agent_results[1].agent_name = "RiskSentimentAgent"
  /\ \E i \in DOMAIN results : results[i].error = Some(EscapedMessage)
  /\ \E i \in DOMAIN results :
       IsErrored(results[i]) /\ results[i].error # Some(EscapedMessage)

\* ---------------------------------------------------------------------
\* C37: what the FRED cache holds
\* ---------------------------------------------------------------------

\* C37: the cache of FREDClient holds only values that pass the bounds check
\* of their indicator, so that an out-of-bounds upstream value is not served
\* from the cache again and does not keep later calls from the network
C37_CacheHoldsOnlyValidValues ==
  key \in FredKeys =>
    LET e == _cache[DataSource(key).fred_id[1]]
    IN  e # None => _validate_value(key, e[1])

\* ---------------------------------------------------------------------
\* C38: concurrent Yahoo requests
\* ---------------------------------------------------------------------

\* the thread is in the except clause of its quote method
InExcept(t) == worker[t].pc \in {"lock_drop", "drop"}

\* C38: under every interleaving of the Yahoo requests, a request that has
\* passed _ensure_session sends its quote request with a crumb and an opener
\* that are not None and come from one handshake, and it never fails without
\* having sent its request because another thread cleared the session
C38_PassedSessionSendsRequest ==
  \A t \in Threads :
    worker[t].call \in YahooCalls =>
      /\ worker[t].pc = "quote" =>
           (worker[t].val # None /\ worker[t].opener = worker[t].val)
      /\ InExcept(t) => worker[t].val # None

\* what the code does: crumb and opener are stored, cleared and copied
\* together under the lock, so a request that is sent carries the crumb and
\* the opener of one handshake
SentWithCrumbOfOneHandshake ==
  /\ session.crumb = session.opener
  /\ \A t \in Threads :
       (worker[t].call \in YahooCalls /\ worker[t].pc = "quote") =>
         (worker[t].val # None /\ worker[t].opener = worker[t].val)

\* a request that passed _ensure_session has found the session cleared by
\* another thread and is in its except clause without having sent anything
FailedWithoutSending ==
  \E t \in Threads :
    /\ worker[t].call \in YahooCalls /\ InExcept(t)
    /\ worker[t].val = None
    /\ worker[t].found = "cached"

\* ------------------------------------- claims on the Liquidity agent's vote
\* the weight a result adds to the total of the composite vote
VoteWeightOf(r) ==
  vote_step([weighted_score |-> Frac(0, 1), total_weight |-> Frac(0, 1)],
            r).total_weight

\* C39: in a Liquidity result without error there are 4 factors, WALCL, TGA
\* and RRP are NEUTRAL, the result's signal is the Net Liquidity signal, its
\* confidence is 0.25 when directional and 0.5 when NEUTRAL, and the weight
\* it adds to the composite vote is at most 1.5 * 0.25.
C39_LiquidityFollowsNetLiquidity ==
  Analyzed("LiquidityAgent") =>
    LET r == agent_result[1]
        three_eighths == <<3, 8>>
    IN  /\ Len(r.factors) = 4
        /\ \A i \in 1..3 : r.factors[i].signal = "NEUTRAL"
        /\ r.factors[4].name = "Net Liquidity"
        /\ r.signal = r.factors[4].signal
        /\ r.signal # "NEUTRAL" => r.confidence = <<1, 4>>
        /\ r.signal = "NEUTRAL" => r.confidence = <<1, 2>>
        /\ ~FracLess(three_eighths, VoteWeightOf(r))

\* a Liquidity result is directional and adds 1.5 * 0.25 to the vote
C39_Witness ==
  /\ Analyzed("LiquidityAgent")
  /\ agent_result[1].signal \in {"BULLISH", "BEARISH"}
  /\ VoteWeightOf(agent_result[1]) = <<3, 8>>

\* a Liquidity result is NEUTRAL with confidence 0.5 and adds no weight
NeutralLiquidityAddsNothing ==
  /\ Analyzed("LiquidityAgent")
  /\ agent_result[1].signal = "NEUTRAL"
  /\ agent_result[1].confidence = <<1, 2>>
  /\ VoteWeightOf(agent_result[1]) = <<0, 1>>

\* ------------------------------------ claims on a run without a live tier
\* what analyze() of agent a returns when each of its fetches ended in the
\* hardcoded fallback
FallbackResult(a) ==
  FallbackCycle[CHOOSE i \in DOMAIN FallbackCycle : FallbackCycle[i].agent_name = a]

\* every agent of this run met unreachable tiers only: each analyze()
\* returned, over the fallbacks of all its fetches
AllTiersUnreachable ==
  \A a \in Agents :
    futures[a].state = "finished" /\ futures[a].value = Some(FallbackResult(a))

\* the report the claim describes
FallbackOnlyReport(rep) ==
  /\ Len(rep.agent_results) = 3
  /\ \A i \in DOMAIN rep.agent_results :
       LET r == rep.agent_results[i]
       IN  /\ r.error = None
           \* confidence 0.5, 0.5 and 0.75 (a confidence is a pair n / d)
           /\ r.category = "LIQUIDITY" =>
                r.signal = "NEUTRAL" /\ 2 * r.confidence[1] = r.confidence[2]
           /\ r.category = "VALUATION" =>
                r.signal = "BEARISH" /\ 2 * r.confidence[1] = r.confidence[2]
           /\ r.category = "RISK_SENTIMENT" =>
                r.signal = "BULLISH" /\ 4 * r.confidence[1] = 3 * r.confidence[2]
  /\ rep.live_count = 0
  /\ rep.fallback_count = 12
  \* (0.75 - 0.65) / 1.4
  /\ rep.weighted_score = <<1, 14>>
  /\ rep.overall_signal = "NEUTRAL"

FallbackRunRaised ==
  AllTiersUnreachable /\ run_pc = "raised" /\ report = None

====
